---- MODULE Spec2Model ----
(***************************************************************************)
(* Pulse Monitor v4.0: the status / incident / alert state machine of      *)
(* state/monitorState.js, the check runner and the interval scheduler of   *)
(* handlers/socketHandlers.js, and the REST routes of routes/apiRoutes.js  *)
(* that reach the same state.                                              *)
(***************************************************************************)
EXTENDS Integers, Sequences, FiniteSets, TLC

VARIABLES
  state,             \* monitorState.js `state`: monitors, statuses, incidents, alerts, settings
  monitorIntervals,  \* socketHandlers.js `monitorIntervals`: Map monitorId -> interval handle
  liveTimers,        \* the runtime's uncleared setInterval handles whose callback is runCheck
  runChecks,         \* per id, the runCheck invocations awaiting their probe
  restChecks,        \* per id, the POST /monitors/:id/check requests awaiting their probe
  pendingChecks,     \* per id, the pending setTimeout(() => runCheck(io, id), delay)
  pendingStartAll    \* the pending setTimeout(() => startAllMonitors(io), 500) of 'import'

VARIABLES
  recipientCalls,    \* the values getRecipientsForAlert() returned, oldest first
  dispatch,          \* the sendAlertNotification call in progress, its position and snapshot
  outbox,            \* the email and SMS requests handed to the transport, oldest first
  now,               \* Date.now()
  lastNetworkNotificationTime,   \* socketHandlers.js module variable
  lastNetworkNotificationType,   \* socketHandlers.js module variable
  netCheck,          \* the checkNetworkConnectivity call awaiting its probe
  netEvents,         \* the connectivity changes logged, with the notification decision of each
  probe,             \* the checkMonitorOnce call last made: monitor, outcome, settlement
  exchange,          \* one probe followed through the stages of its exchange with the peer
  reply,             \* what the last request handled gave back to its caller
  activityLogs,      \* monitorState.js state.activityLogs, followed under ActivitySpec
  boot,              \* one startup followed on the clock: its timers and the checks started
  lastRun,           \* what the runCheck last completed broadcast and whom it notified
  disk               \* the snapshot file saveState wrote last

coreVars == <<state, monitorIntervals, liveTimers, runChecks, restChecks,
              pendingChecks, pendingStartAll>>
recipVars == <<recipientCalls>>
notifyVars == <<dispatch, outbox>>
netVars == <<now, lastNetworkNotificationTime, lastNetworkNotificationType, netCheck, netEvents>>
probeVars == <<probe, exchange>>
apiVars == <<reply>>
logVars == <<activityLogs>>
bootVars == <<boot>>
runVars == <<lastRun>>
diskVars == <<disk>>
extVars == <<recipVars, notifyVars, netVars, probeVars, apiVars, logVars, bootVars, runVars, diskVars, runVars,
             diskVars>>

vars == <<state, monitorIntervals, liveTimers, runChecks, restChecks,
          pendingChecks, pendingStartAll, extVars>>

(***************************************************************************)
(* Bounds of the model.                                                    *)
(***************************************************************************)
MaxChecks == 5      \* a Status takes no further result once totalChecks reaches it
MaxIncidents == 2   \* no result is applied that would open an incident beyond it
MaxInFlight == 2    \* probes in flight per monitor id
MaxPending == 1     \* pending timeouts per kind and id
MaxCalls == 2       \* calls of getRecipientsForAlert on one set of contacts and groups
MaxTicks == 10      \* ticks of the network self-check
MaxWait == 4        \* steps of time a probe is followed for
MaxRequests == 3    \* requests handled with their reply recorded

MonitorIds == {"m1", "m2"}
CheckedIds == {"m1"}   \* the monitor ids Spec applies results to
Schedules == {30, 60}
Thresholds == {1, 2, 3}
Results == {"UP", "DOWN"}

(***************************************************************************)
(* Program constants.                                                      *)
(***************************************************************************)
DefaultSchedule == 60
DefaultThreshold == 3
HistoryLimit == 100
NETWORK_NOTIFICATION_COOLDOWN == 60000
NetworkCheckPeriod == 10000
StartTime == 100000   \* a Date.now() later than one cooldown after the epoch
DefaultTimeout == 10000
SslInfoTimeout == 5000
TimeStep == 5000      \* the grain of time in the probe exchanges

(***************************************************************************)
(* JavaScript Map and Array helpers.                                       *)
(***************************************************************************)
MapSet(map, k, v) == [x \in (DOMAIN map) \cup {k} |-> IF x = k THEN v ELSE map[x]]
MapDelete(map, k) == [x \in (DOMAIN map) \ {k} |-> map[x]]
EmptyMap == [x \in {} |-> 0]
\* faulty variant: the element goes to the end of the array
Unshift_Push(arr, e) == arr \o <<e>>

Unshift(arr, e) == <<e>> \o arr
\* faulty variant: the last n elements are kept
Slice_Last(arr, n) == IF Len(arr) <= n THEN arr ELSE SubSeq(arr, Len(arr) - n + 1, Len(arr))

Slice(arr, n) == IF Len(arr) <= n THEN arr ELSE SubSeq(arr, 1, n)
\* Array.find over the indices that satisfy the predicate: the first one, 0 for undefined
FindIndex(hits) == IF hits = {} THEN 0 ELSE CHOOSE i \in hits : \A j \in hits : i <= j

(***************************************************************************)
(* state/monitorState.js                                                   *)
(***************************************************************************)
createInitialState ==
  [ monitors  |-> EmptyMap,
    statuses  |-> EmptyMap,
    contacts  |-> EmptyMap,
    contactGroups |-> EmptyMap,
    incidents |-> <<>>,
    alerts    |-> <<>>,
    settings  |-> [ consecutiveFailuresThreshold |-> DefaultThreshold, autoResolve |-> TRUE,
                    soundEnabled |-> TRUE, ttsEnabled |-> TRUE,
                    emailEnabled |-> FALSE, smtpHost |-> "", smtpUser |-> "",
                    smsEnabled |-> TRUE ],
    networkStatus |-> [isConnected |-> TRUE] ]

InitialStatus ==
  [ status |-> "PENDING", consecutiveFailures |-> 0, totalChecks |-> 0,
    successfulChecks |-> 0, history |-> <<>> ]

\* the fields of a monitor that name it, locate its target and hold its credentials
DefinitionFields ==
  {"name", "type", "url", "host", "port", "username", "password", "privateKey",
   "sshSudoPassword"}

\* data.field || null; "null" stands for null, undefined and the empty string
Field(data, f) == IF f \in DOMAIN data /\ data[f] # "" THEN data[f] ELSE "null"

\* the monitor object createMonitor builds from data
NewMonitor(data) ==
  [f \in DefinitionFields \cup {"enabled", "schedule"} |->
     CASE f = "enabled" -> IF "enabled" \in DOMAIN data THEN data.enabled ELSE TRUE
       [] f = "schedule" -> IF "schedule" \in DOMAIN data THEN data.schedule ELSE DefaultSchedule
       [] OTHER -> Field(data, f)]

createMonitor(st, id, data) ==
  [st EXCEPT !.monitors = MapSet(@, id, NewMonitor(data)),
             !.statuses = MapSet(@, id, InitialStatus)]

\* { ...monitor, ...data }: the fields present in data replace the stored ones
updateMonitor(st, id, data) ==
  IF id \notin DOMAIN st.monitors THEN st
  ELSE [st EXCEPT !.monitors = MapSet(@, id,
          [f \in (DOMAIN st.monitors[id]) \cup (DOMAIN data) |->
             IF f \in DOMAIN data THEN data[f] ELSE st.monitors[id][f]])]

deleteMonitor(st, id) ==
  IF id \notin DOMAIN st.monitors THEN st
  ELSE [st EXCEPT !.monitors = MapDelete(@, id), !.statuses = MapDelete(@, id)]

getStatusOrDefault(st, monitorId) ==
  IF monitorId \in DOMAIN st.statuses THEN st.statuses[monitorId] ELSE InitialStatus

createAlert(st, monitorId, type, severity) ==
  [st EXCEPT !.alerts = Unshift(@,
     [ id |-> Len(st.alerts) + 1, monitorId |-> monitorId, type |-> type,
       severity |-> severity, status |-> "active", resolvedAt |-> "null" ])]

createIncident(st, monitorId) ==
  createAlert(
    [st EXCEPT !.incidents = Unshift(@,
       [ id |-> Len(st.incidents) + 1, monitorId |-> monitorId, status |-> "ongoing",
         resolvedAt |-> "null", duration |-> "null" ])],
    monitorId, "incident", "critical")

IsOngoingFor(monitorId, i) == i.monitorId = monitorId /\ i.status = "ongoing"
IsActiveFor(monitorId, a) == a.monitorId = monitorId /\ a.status = "active"

resolveIncidentForMonitor(st, monitorId) ==
  LET k == FindIndex({i \in 1..Len(st.incidents) : IsOngoingFor(monitorId, st.incidents[i])})
  IN IF k = 0 THEN st
     ELSE [st EXCEPT
             !.incidents[k] = [@ EXCEPT !.status = "resolved", !.resolvedAt = "set",
                                        !.duration = "set"],
             !.alerts = [j \in 1..Len(st.alerts) |->
                           IF IsActiveFor(monitorId, st.alerts[j])
                           THEN [st.alerts[j] EXCEPT !.status = "resolved", !.resolvedAt = "set"]
                           ELSE st.alerts[j]]]

\* faulty variant: an UP result leaves the counter as it is
NewConsecutiveFailures_NoReset(currentStatus, isUp) ==
  IF isUp THEN currentStatus.consecutiveFailures ELSE currentStatus.consecutiveFailures + 1

NewConsecutiveFailures(currentStatus, isUp) ==
  IF isUp THEN 0 ELSE currentStatus.consecutiveFailures + 1

\* faulty variant: the first failure opens an incident only once the threshold is reached
OpensOnFirstFailure_Gated(st, previousStatus, result, consecutiveFailures) ==
  /\ previousStatus = "UP" /\ result = "DOWN"
  /\ consecutiveFailures >= st.settings.consecutiveFailuresThreshold

\* the UP -> DOWN branch: an incident on the first failure, not gated on the threshold
OpensOnFirstFailure(st, previousStatus, result, consecutiveFailures) ==
  previousStatus = "UP" /\ result = "DOWN"

\* faulty variant: the threshold branch does not look for an ongoing incident
OpensOnThreshold_NoLookup(st, monitorId, previousStatus, result, consecutiveFailures) ==
  /\ previousStatus = "DOWN" /\ result = "DOWN"
  /\ consecutiveFailures >= st.settings.consecutiveFailuresThreshold

\* faulty variant: the counter has to exceed the threshold
OpensOnThreshold_Exceeds(st, monitorId, previousStatus, result, consecutiveFailures) ==
  /\ previousStatus = "DOWN" /\ result = "DOWN"
  /\ consecutiveFailures > st.settings.consecutiveFailuresThreshold
  /\ ~\E k \in 1..Len(st.incidents) : IsOngoingFor(monitorId, st.incidents[k])

\* the DOWN -> DOWN branch: an incident once the threshold is reached and none is ongoing
OpensOnThreshold(st, monitorId, previousStatus, result, consecutiveFailures) ==
  /\ previousStatus = "DOWN" /\ result = "DOWN"
  /\ consecutiveFailures >= st.settings.consecutiveFailuresThreshold
  /\ ~\E k \in 1..Len(st.incidents) : IsOngoingFor(monitorId, st.incidents[k])

updateStatus(st, monitorId, result) ==
  LET currentStatus == getStatusOrDefault(st, monitorId)
      previousStatus == currentStatus.status
      isUp == result = "UP"
      consecutiveFailures == NewConsecutiveFailures(currentStatus, isUp)
      newStatus ==
        [ status |-> result,
          consecutiveFailures |-> consecutiveFailures,
          totalChecks |-> currentStatus.totalChecks + 1,
          successfulChecks |-> IF isUp THEN currentStatus.successfulChecks + 1
                                       ELSE currentStatus.successfulChecks,
          history |-> Slice(Unshift(currentStatus.history, result), HistoryLimit) ]
      st1 == [st EXCEPT !.statuses = MapSet(@, monitorId, newStatus)]
  IN IF OpensOnFirstFailure(st1, previousStatus, result, consecutiveFailures)
       THEN createIncident(st1, monitorId)
     ELSE IF OpensOnThreshold(st1, monitorId, previousStatus, result, consecutiveFailures)
       THEN createIncident(st1, monitorId)
     ELSE IF previousStatus = "DOWN" /\ result = "UP" /\ st.settings.autoResolve
       THEN resolveIncidentForMonitor(st1, monitorId)
     ELSE st1

acknowledgeAlert(st, k) == [st EXCEPT !.alerts[k].status = "acknowledged"]
resolveAlert(st, k) == [st EXCEPT !.alerts[k].status = "resolved", !.alerts[k].resolvedAt = "set"]

updateSettings(st, newSettings) ==
  [st EXCEPT !.settings =
     [f \in DOMAIN st.settings |-> IF f \in DOMAIN newSettings THEN newSettings[f] ELSE @[f]]]

\* the monitor object importData builds: name and type get a default
ImportedMonitor(m) ==
  [NewMonitor(m) EXCEPT
     !.name = IF @ = "null" THEN "Unnamed Monitor" ELSE @,
     !.type = IF @ = "null" THEN "http" ELSE @]

\* data: a map id -> monitor; every imported monitor gets a fresh PENDING status
importData(st, data) ==
  [st EXCEPT
     !.monitors = [x \in (DOMAIN st.monitors) \cup (DOMAIN data) |->
                     IF x \in DOMAIN data THEN ImportedMonitor(data[x]) ELSE st.monitors[x]],
     !.statuses = [x \in (DOMAIN st.statuses) \cup (DOMAIN data) |->
                     IF x \in DOMAIN data THEN InitialStatus ELSE st.statuses[x]]]

getEnabledMonitors(st) == {id \in DOMAIN st.monitors : st.monitors[id].enabled}

(***************************************************************************)
(* state/monitorState.js: loadState.  file is [kind, data]: kind tells a   *)
(* missing file, an unreadable one and one that is not JSON from a parsed  *)
(* snapshot; data gives the form of each collection of the snapshot,       *)
(* "absent", "ok" or "malformed" (entries new Map() or map() throws on).   *)
(***************************************************************************)
\* the collections in the order loadState assigns them
LoadOrder == <<"contacts", "contactGroups", "incidents", "alerts", "settings", "monitors",
               "statuses">>

\* what a well-formed collection of the snapshot holds
SnapshotValue(c) ==
  CASE c = "contacts" ->
         [x \in {"c1"} |->
            [ id |-> "c1", email |-> "a@x.io", phone |-> "0241", notifyEmail |-> TRUE,
              notifySms |-> TRUE, notifyOnDown |-> TRUE, notifyOnUp |-> TRUE,
              notifyOnIncident |-> TRUE ]]
    [] c = "contactGroups" -> [x \in {"g1"} |-> [contactIds |-> <<"c1">>]]
    [] c = "incidents" ->
         << [ id |-> 1, monitorId |-> "m1", status |-> "ongoing", resolvedAt |-> "null",
              duration |-> "null" ] >>
    [] c = "alerts" ->
         << [ id |-> 1, monitorId |-> "m1", type |-> "incident", severity |-> "critical",
              status |-> "active", resolvedAt |-> "null" ] >>
    [] c = "settings" -> [autoResolve |-> FALSE]
    [] c = "monitors" ->
         [x \in {"m1"} |-> NewMonitor([name |-> "web", type |-> "http", url |-> "http://a"])]
    [] c = "statuses" ->
         [x \in {"m1"} |-> [InitialStatus EXCEPT !.status = "DOWN", !.consecutiveFailures = 1,
                                                 !.totalChecks = 1, !.history = <<"DOWN">>]]

\* one assignment of loadState: data.c || [] for a collection, a merge for the settings
LoadCollection(st, c, form) ==
  IF c = "settings"
  THEN IF form = "ok" THEN updateSettings(st, SnapshotValue(c)) ELSE st
  ELSE [st EXCEPT ![c] =
          IF form = "ok" THEN SnapshotValue(c)
          ELSE IF c \in {"incidents", "alerts"} THEN <<>> ELSE EmptyMap]

RECURSIVE LoadEach(_, _, _)
\* the assignments in order; the first malformed collection throws, the catch returns false
LoadEach(st, data, order) ==
  IF order = <<>> THEN [state |-> st, loaded |-> TRUE]
  ELSE IF data[Head(order)] = "malformed" THEN [state |-> st, loaded |-> FALSE]
  ELSE LoadEach(LoadCollection(st, Head(order), data[Head(order)]), data, Tail(order))

loadState(st, file) ==
  IF file.kind = "snapshot" THEN LoadEach(st, file.data, LoadOrder)
  ELSE [state |-> st, loaded |-> FALSE]

(***************************************************************************)
(* state/monitorState.js: what the read operations hand out.  An array of  *)
(* monitors is the map from id to its element.                             *)
(***************************************************************************)
CredentialFields == {"password", "privateKey", "sshSudoPassword"}

getMonitor(st, id) == st.monitors[id]

\* m.password ? '***' : null
Masked(v) == IF v # "null" THEN "***" ELSE "null"

getAllMonitors(st) ==
  [id \in DOMAIN st.monitors |->
     [f \in DOMAIN st.monitors[id] |->
        IF f \in CredentialFields THEN Masked(st.monitors[id][f]) ELSE st.monitors[id][f]]]

getSettings(st) == st.settings

\* password: undefined, ...: the serialized monitor has no such field
exportData(st) ==
  [ monitors |-> [id \in DOMAIN st.monitors |->
                    [f \in (DOMAIN st.monitors[id]) \ CredentialFields |-> st.monitors[id][f]]],
    contacts |-> st.contacts,
    contactGroups |-> st.contactGroups,
    settings |-> getSettings(st) ]

(***************************************************************************)
(* state/monitorState.js: recipients of an alert.  A contact is a record   *)
(* [id, email, phone, notifyEmail, notifySms, notifyOnDown, notifyOnUp,    *)
(* notifyOnIncident]; a contact group is [contactIds].  Maps iterate in    *)
(* insertion order: contacts in the order of ContactOrder, groups in the   *)
(* order of GroupOrder.                                                    *)
(***************************************************************************)
ContactOrder == <<"c1", "c2", "c3">>
GroupOrder == <<"g1", "g2">>

\* JavaScript truthiness of a string field that may be null or empty
Truthy(x) == x # "null" /\ x # ""

WantsNotification(contact) ==
  contact.notifyOnDown \/ contact.notifyOnUp \/ contact.notifyOnIncident

IsEmailRecipient(c) == Truthy(c.email) /\ c.notifyEmail

\* faulty variant: every contact with a phone is an SMS recipient
IsSmsRecipient_AnyPhone(c) == Truthy(c.phone)

IsSmsRecipient(c) == Truthy(c.phone) /\ c.notifySms

\* faulty variant: the key is appended whether or not the map holds it
RecipientMapSet_Append(keys, id) == Append(keys, id)

\* recipientMap.set(contact.id, contact) on the keys of the map, in insertion order
RecipientMapSet(keys, id) ==
  IF \E i \in 1..Len(keys) : keys[i] = id THEN keys ELSE Append(keys, id)

RECURSIVE AddContacts(_, _, _)
\* one loop over contact ids: each existing contact that wants notifications is set
AddContacts(keys, st, ids) ==
  IF ids = <<>> THEN keys
  ELSE LET id == Head(ids)
           keys1 == IF id \in DOMAIN st.contacts /\ WantsNotification(st.contacts[id])
                    THEN RecipientMapSet(keys, id) ELSE keys
       IN AddContacts(keys1, st, Tail(ids))

RECURSIVE ExpandGroups(_, _, _)
ExpandGroups(keys, st, groups) ==
  IF groups = <<>> THEN keys
  ELSE LET g == Head(groups)
           keys1 == IF g \in DOMAIN st.contactGroups
                    THEN AddContacts(keys, st, st.contactGroups[g].contactIds) ELSE keys
       IN ExpandGroups(keys1, st, Tail(groups))

getRecipientsForAlert(st) ==
  LET direct == AddContacts(<<>>, st, ContactOrder)
      keys == ExpandGroups(direct, st, GroupOrder)
      allRecipients == [i \in 1..Len(keys) |-> st.contacts[keys[i]]]
  IN [ emailRecipients |-> SelectSeq(allRecipients, IsEmailRecipient),
       smsRecipients |-> SelectSeq(allRecipients, IsSmsRecipient),
       allRecipients |-> allRecipients ]

getContactsForAlert(st) ==
  LET present == SelectSeq(ContactOrder, LAMBDA id : id \in DOMAIN st.contacts)
      all == [i \in 1..Len(present) |-> st.contacts[present[i]]]
  IN SelectSeq(all, WantsNotification)

(***************************************************************************)
(* services/notificationService.js.  box is the outbox: what reached the   *)
(* mail transport and the SMS API, [kind, to, result], oldest first.       *)
(* outcome is what the transport does with a request: "sent" or "failed".  *)
(***************************************************************************)
\* sendEmail: nothing goes out when email is disabled or not configured; a failed send
\* is caught and returned
sendEmail(box, settings, to, outcome) ==
  IF ~settings.emailEnabled THEN box
  ELSE IF ~Truthy(settings.smtpHost) \/ ~Truthy(settings.smtpUser) THEN box
  ELSE Append(box, [kind |-> "email", to |-> <<to>>, result |-> outcome])

RECURSIVE PostEach(_, _, _)
PostEach(box, phones, outcome) ==
  IF phones = <<>> THEN box
  ELSE PostEach(Append(box, [kind |-> "sms", to |-> <<Head(phones)>>, result |-> outcome]),
                Tail(phones), outcome)

\* faulty variant: one request per phone number
sendSms_PerPhone(box, settings, phones, outcome) ==
  IF ~settings.smsEnabled THEN box ELSE PostEach(box, phones, outcome)

\* sendSms with an array: one axios.post whose recipient is the whole array
sendSms(box, settings, phones, outcome) ==
  IF ~settings.smsEnabled THEN box
  ELSE Append(box, [kind |-> "sms", to |-> phones, result |-> outcome])

sendSmsBatch(box, settings, phones, outcome) ==
  IF ~settings.smsEnabled THEN box
  ELSE IF Len(phones) = 0 THEN box
  ELSE sendSms(box, settings, phones, outcome)

\* smsRecipients.map(c => c.phone).filter(p => p)
Phones(smsRecipients) ==
  SelectSeq([i \in 1..Len(smsRecipients) |-> smsRecipients[i].phone], Truthy)

\* sendAlertNotification up to its first await: settings and recipients are read once
beginSendAlertNotification(st) ==
  LET r == getRecipientsForAlert(st)
  IN [ pc |-> "tts", settings |-> st.settings, emailRecipients |-> r.emailRecipients,
       smsRecipients |-> r.smsRecipients, next |-> 1, called |-> <<>>, tts |-> "none" ]

\* faulty variant: a failed send ends the dispatch
afterSendEmail_Abort(d, outcome) ==
  LET called == Append(d.called, d.emailRecipients[d.next].email)
  IN IF outcome = "failed" THEN [d EXCEPT !.pc = "done", !.called = called]
     ELSE [d EXCEPT !.next = @ + 1, !.called = called]

\* the email loop after one sendEmail: whatever it returned, on to the next recipient
afterSendEmail(d, outcome) ==
  [d EXCEPT !.next = @ + 1, !.called = Append(@, d.emailRecipients[d.next].email)]

(***************************************************************************)
(* handlers/socketHandlers.js: the scheduler.  sch is the pair             *)
(* [monitorIntervals, liveTimers].                                         *)
(***************************************************************************)
Range(map) == {map[x] : x \in DOMAIN map}

\* setInterval returns a handle no live timer has
NewHandle(live, monitorId, period) ==
  [ mon |-> monitorId, period |-> period,
    serial |-> CHOOSE n \in 0..Cardinality(live) :
                 /\ \A h \in live : ~(h.mon = monitorId /\ h.serial = n)
                 /\ \A k \in 0..(n - 1) : \E h \in live : h.mon = monitorId /\ h.serial = k ]

stopMonitorInterval(sch, monitorId) ==
  IF monitorId \in DOMAIN sch.monitorIntervals
  THEN [ monitorIntervals |-> MapDelete(sch.monitorIntervals, monitorId),
         liveTimers |-> sch.liveTimers \ {sch.monitorIntervals[monitorId]} ]
  ELSE sch

startMonitorInterval(sch, st, monitorId) ==
  IF monitorId \notin DOMAIN st.monitors \/ ~st.monitors[monitorId].enabled THEN sch
  ELSE LET cleared == stopMonitorInterval(sch, monitorId)
           interval == NewHandle(cleared.liveTimers, monitorId, st.monitors[monitorId].schedule)
       IN [ monitorIntervals |-> MapSet(cleared.monitorIntervals, monitorId, interval),
            liveTimers |-> cleared.liveTimers \cup {interval} ]

stopAllMonitors(sch) ==
  [ monitorIntervals |-> EmptyMap,
    liveTimers |-> sch.liveTimers \ Range(sch.monitorIntervals) ]

RECURSIVE StartEach(_, _, _)
StartEach(sch, st, ids) ==
  IF ids = {} THEN sch
  ELSE LET id == CHOOSE x \in ids : TRUE
       IN StartEach(startMonitorInterval(sch, st, id), st, ids \ {id})

\* the timers of startAllMonitors; its staggered first checks are in the action
startAllMonitors(sch, st) == StartEach(sch, st, getEnabledMonitors(st))

\* runCheck up to its await: nothing is started for an id that has no monitor
beginRunCheck(rc, st, monitorId) ==
  IF monitorId \in DOMAIN st.monitors THEN [rc EXCEPT ![monitorId] = @ + 1] ELSE rc

\* runCheck after its await: the result is applied, then a DOWN -> UP change resolves
\* the first active alert of the monitor
finishRunCheck(st, monitorId, result) ==
  LET hadStatus == monitorId \in DOMAIN st.statuses
      previousStatus == IF hadStatus THEN st.statuses[monitorId].status ELSE "undefined"
      st1 == updateStatus(st, monitorId, result)
      k == FindIndex({i \in 1..Len(st1.alerts) : IsActiveFor(monitorId, st1.alerts[i])})
  IN IF previousStatus # result /\ result = "UP" /\ previousStatus = "DOWN" /\ k # 0
     THEN [st1 EXCEPT !.alerts[k].status = "resolved", !.alerts[k].resolvedAt = "set"]
     ELSE st1

(***************************************************************************)
(* handlers/socketHandlers.js: the network self-check.  net is the record  *)
(* [state, lastNetworkNotificationTime, lastNetworkNotificationType,       *)
(* netEvents]; time is Date.now() when the probe settles.                  *)
(***************************************************************************)
\* faulty variant: every tick that finds the network down counts as the loss of it
LostNow_EveryTick(previousStatus, isConnected) == isConnected = FALSE

\* previousStatus === true && newStatus.isConnected === false
LostNow(previousStatus, isConnected) == previousStatus = TRUE /\ isConnected = FALSE

\* previousStatus === false && newStatus.isConnected === true
RestoredNow(previousStatus, isConnected) == previousStatus = FALSE /\ isConnected = TRUE

\* the cooldown has passed and the last notification was not of this kind
MayNotify(net, kind, time) ==
  /\ time - net.lastNetworkNotificationTime > NETWORK_NOTIFICATION_COOLDOWN
  /\ net.lastNetworkNotificationType # kind

setNetworkStatus(st, isConnected) == [st EXCEPT !.networkStatus.isConnected = isConnected]

\* the change is logged; the notification is sent when MayNotify allows it
NotifyChange(net, isConnected, kind, time) ==
  LET send == MayNotify(net, kind, time)
  IN [net EXCEPT
        !.netEvents = Append(@, [isConnected |-> isConnected, time |-> time, notified |-> send]),
        !.lastNetworkNotificationTime = IF send THEN time ELSE @,
        !.lastNetworkNotificationType = IF send THEN kind ELSE @]

\* checkNetworkConnectivity after its probe settled; previousStatus was read before it
checkNetworkConnectivity(net, previousStatus, isConnected, time) ==
  LET net1 == [net EXCEPT !.state = setNetworkStatus(@, isConnected)]
  IN IF RestoredNow(previousStatus, isConnected)
       THEN NotifyChange(net1, TRUE, "connected", time)
     ELSE IF LostNow(previousStatus, isConnected)
       THEN NotifyChange(
              [net1 EXCEPT !.state = createAlert(createIncident(@, "NETWORK"), "NETWORK",
                                                 "connectivity", "critical")],
              FALSE, "disconnected", time)
     ELSE net1

(***************************************************************************)
(* monitors/monitorEngine.js.  monitor is [type, port, privateKey]; port   *)
(* and privateKey stand for the shape of the field, type "undefined" for a *)
(* missing type.  outcome is what the library call does:                   *)
(* "throws" is an exception thrown by the call itself, the others arrive   *)
(* as events or as the settlement of its promise.                          *)
(***************************************************************************)
Resolved(status) == [settled |-> "resolved", status |-> status]
Rejected == [settled |-> "rejected", status |-> "none"]

\* monitor.type?.toLowerCase()
ToLowerCase(type) ==
  CASE type = "HTTPS" -> "https"
    [] type = "TCP" -> "tcp"
    [] OTHER -> type

\* try { await ... } catch: every failure is returned as DOWN
checkHttp(monitor, outcome) == IF outcome = "connect" THEN Resolved("UP") ELSE Resolved("DOWN")
checkIcmp(monitor, outcome) == IF outcome = "connect" THEN Resolved("UP") ELSE Resolved("DOWN")
checkTelnet(monitor, outcome) == IF outcome = "connect" THEN Resolved("UP") ELSE Resolved("DOWN")

\* new Promise((resolve) => { ...; socket.connect(port, host) }): the events resolve, an
\* exception of connect() itself rejects the promise
checkTcp(monitor, outcome) ==
  IF outcome = "throws" THEN Rejected
  ELSE IF outcome = "connect" THEN Resolved("UP") ELSE Resolved("DOWN")

\* new Promise((resolve) => { ...; ssh.connect(connectConfig) })
checkSsh(monitor, outcome) ==
  IF outcome = "throws" THEN Rejected
  ELSE IF outcome = "connect" THEN Resolved("UP") ELSE Resolved("DOWN")

checkSftp(monitor, outcome) ==
  IF outcome = "throws" THEN Rejected
  ELSE IF outcome = "connect" THEN Resolved("UP") ELSE Resolved("DOWN")

checkMonitorOnce(monitor, outcome) ==
  LET type == ToLowerCase(monitor.type)
  IN CASE type \in {"http", "https"} -> checkHttp(monitor, outcome)
       [] type \in {"icmp", "ping"} -> checkIcmp(monitor, outcome)
       [] type = "tcp" -> checkTcp(monitor, outcome)
       [] type = "ssh" -> checkSsh(monitor, outcome)
       [] type = "telnet" -> checkTelnet(monitor, outcome)
       [] type = "sftp" -> checkSftp(monitor, outcome)
       [] OTHER -> Resolved("DOWN")

\* validateMonitorConfig(config).valid: name, type and the fields the type requires
validateMonitorConfig(config) ==
  LET type == ToLowerCase(Field(config, "type"))
      has(f) == Field(config, f) # "null"
  IN [ valid |->
         /\ has("name")
         /\ has("type")
         /\ CASE type \in {"http", "https"} -> has("url")
              [] type \in {"icmp", "ping"} -> has("host")
              [] type = "tcp" -> has("host") /\ has("port")
              [] type \in {"ssh", "sftp"} ->
                   has("host") /\ has("username") /\ (has("password") \/ has("privateKey"))
              [] type = "telnet" -> has("host")
              [] OTHER -> FALSE ]

(***************************************************************************)
(* monitors/monitorEngine.js: a probe as an exchange with its peer.  x is  *)
(* [pc, kind, stage, timeout, elapsed, deadline, verdict, status, by]:     *)
(* stage is what the probe is waiting for, deadline the instant at which   *)
(* the timer guarding that wait fires (NoTimer when none is armed),        *)
(* verdict the status an answered HTTPS request has earned before the      *)
(* certificate is fetched.  A library timeout (axios, ping, telnet-client, *)
(* socket.setTimeout) is a timer of the stage it guards.                   *)
(***************************************************************************)
NoTimer == 0 - 1

IdleExchange ==
  [ pc |-> "idle", kind |-> "none", stage |-> "none", timeout |-> 0, elapsed |-> 0,
    deadline |-> NoTimer, verdict |-> "none", status |-> "none", by |-> "none" ]

\* monitor.timeout || 10000
TimeoutOf(timeout) == IF timeout = 0 THEN DefaultTimeout ELSE timeout

FirstStage(kind) ==
  CASE kind \in {"http", "https"} -> "request"
    [] kind = "icmp" -> "echo"
    [] kind \in {"tcp", "telnet"} -> "connect"
    [] kind \in {"ssh", "sftp"} -> "ready"

\* the probe function up to its first wait: the timer of that wait is armed
beginProbe(kind, timeout) ==
  [ pc |-> "waiting", kind |-> kind, stage |-> FirstStage(kind), timeout |-> TimeoutOf(timeout),
    elapsed |-> 0, deadline |-> TimeoutOf(timeout), verdict |-> "none", status |-> "none",
    by |-> "none" ]

resolveWith(x, status, by) ==
  [x EXCEPT !.pc = "settled", !.stage = "none", !.deadline = NoTimer, !.status = status,
            !.by = by]

\* checkSftp, ssh.on('ready'): ssh.sftp(...) is requested, the timer keeps running
sftpReady(x) == [x EXCEPT !.stage = "subsystem"]

\* checkSftp, the callback of ssh.sftp without error: clearTimeout, then sftp.readdir
sftpOpened(x) == [x EXCEPT !.stage = "readdir", !.deadline = NoTimer]

\* checkHttp after the response: an https url goes on to getSSLInfo under its own timer
httpAnswered(x, ok) ==
  LET verdict == IF ok THEN "UP" ELSE "DOWN"
  IN IF x.kind = "https"
     THEN [x EXCEPT !.stage = "sslinfo", !.verdict = verdict,
                    !.deadline = x.elapsed + SslInfoTimeout]
     ELSE resolveWith(x, verdict, "answer")

\* the peer answers what the probe is waiting for; ok tells a good answer from a bad one
\* (an unexpected HTTP status, a host not alive, a directory listing refused)
onAnswer(x, ok) ==
  CASE x.stage = "request" -> httpAnswered(x, ok)
    [] x.stage = "sslinfo" -> resolveWith(x, x.verdict, "answer")
    [] x.stage = "echo" -> resolveWith(x, IF ok THEN "UP" ELSE "DOWN", "answer")
    [] x.stage = "connect" -> resolveWith(x, "UP", "answer")
    [] x.stage = "ready" ->
         IF x.kind = "sftp" THEN sftpReady(x) ELSE resolveWith(x, "UP", "answer")
    [] x.stage = "subsystem" -> sftpOpened(x)
    [] x.stage = "readdir" -> resolveWith(x, IF ok THEN "UP" ELSE "DOWN", "answer")

\* the wait ends with an error: caught or handled as DOWN; getSSLInfo resolves null
onError(x) ==
  IF x.stage = "sslinfo" THEN resolveWith(x, x.verdict, "error")
  ELSE resolveWith(x, "DOWN", "error")

\* the timer of the wait fires
onTimeout(x) ==
  IF x.stage = "sslinfo" THEN resolveWith(x, x.verdict, "timeout")
  ELSE resolveWith(x, "DOWN", "timeout")

(***************************************************************************)
(* The system.                                                             *)
(***************************************************************************)
Sch == [monitorIntervals |-> monitorIntervals, liveTimers |-> liveTimers]

SetSch(sch) ==
  /\ monitorIntervals' = sch.monitorIntervals
  /\ liveTimers' = sch.liveTimers

MonitorData ==
  [enabled : BOOLEAN, schedule : Schedules, name : {"web"}, type : {"http"}, url : {"http://a"}]
UpdateData == [enabled : BOOLEAN] \cup [schedule : Schedules] \cup MonitorData
SettingsData ==
  [consecutiveFailuresThreshold : Thresholds] \cup [autoResolve : BOOLEAN]
ImportData == UNION {[S -> MonitorData] : S \in SUBSET MonitorIds}

\* uuidv4(): an id nothing in the system refers to
Fresh(id) ==
  /\ id \notin DOMAIN state.monitors
  /\ id \notin DOMAIN state.statuses
  /\ id \notin DOMAIN monitorIntervals
  /\ \A h \in liveTimers : h.mon # id
  /\ \A k \in 1..Len(state.incidents) : state.incidents[k].monitorId # id
  /\ \A k \in 1..Len(state.alerts) : state.alerts[k].monitorId # id
  /\ runChecks[id] = 0 /\ restChecks[id] = 0 /\ pendingChecks[id] = 0

\* no request handled yet
NoReply == [seq |-> 0, op |-> "none", target |-> "none", result |-> "none", body |-> "none"]

\* callback?.({ success, ... }) of a socket handler, res.json / res.status(4xx).json of a route
Reply(op, target, result, body) ==
  [seq |-> reply.seq + 1, op |-> op, target |-> target, result |-> result, body |-> body]

\* server.js before server.listen calls back: no timer of the startup is set
NotBooted == [pc |-> "idle"]

\* no runCheck has completed
NoRun == [monitor |-> "none", broadcasts |-> <<>>, notified |-> 0]

\* nothing saved yet
NoFile == [written |-> FALSE]

\* nothing called yet; the module variables of the self-check as declared
ProcessInit ==
  /\ recipientCalls = <<>>
  /\ dispatch = [pc |-> "idle"]
  /\ outbox = <<>>
  /\ now = StartTime
  /\ lastNetworkNotificationTime = 0
  /\ lastNetworkNotificationType = "null"
  /\ netCheck = [pc |-> "idle"]
  /\ netEvents = <<>>
  /\ probe = [pc |-> "idle"]
  /\ exchange = IdleExchange
  /\ reply = NoReply
  /\ activityLogs = <<>>
  /\ boot = NotBooted
  /\ lastRun = NoRun

\* a process that has not written its state file yet
ExtInit ==
  /\ ProcessInit
  /\ disk = NoFile

Init ==
  /\ ExtInit
  /\ state = createInitialState
  /\ monitorIntervals = EmptyMap
  /\ liveTimers = {}
  /\ runChecks = [id \in MonitorIds |-> 0]
  /\ restChecks = [id \in MonitorIds |-> 0]
  /\ pendingChecks = [id \in MonitorIds |-> 0]
  /\ pendingStartAll = 0

\* socket 'monitor:create'
SocketCreate(id, data) ==
  /\ Fresh(id)
  /\ runChecks[id] < MaxInFlight
  /\ LET st1 == createMonitor(state, id, data)
     IN /\ state' = st1
        /\ SetSch(startMonitorInterval(Sch, st1, id))
        /\ runChecks' = IF data.enabled THEN beginRunCheck(runChecks, st1, id) ELSE runChecks
  /\ UNCHANGED <<restChecks, pendingChecks, pendingStartAll>>
  /\ UNCHANGED extVars

\* socket 'monitor:update'
SocketUpdate(id, data) ==
  /\ id \in DOMAIN state.monitors
  /\ LET st1 == updateMonitor(state, id, data)
     IN /\ state' = st1
        /\ SetSch(startMonitorInterval(stopMonitorInterval(Sch, id), st1, id))
  /\ UNCHANGED <<runChecks, restChecks, pendingChecks, pendingStartAll>>
  /\ UNCHANGED extVars

\* socket 'monitor:delete': the timer is stopped whether or not the monitor exists
SocketDelete(id) ==
  /\ id \in DOMAIN state.monitors \/ id \in DOMAIN monitorIntervals
  /\ SetSch(stopMonitorInterval(Sch, id))
  /\ state' = deleteMonitor(state, id)
  /\ UNCHANGED <<runChecks, restChecks, pendingChecks, pendingStartAll>>
  /\ UNCHANGED extVars

\* socket 'monitor:toggle'
SocketToggle(id) ==
  /\ id \in DOMAIN state.monitors
  /\ LET st1 == updateMonitor(state, id, [enabled |-> ~state.monitors[id].enabled])
     IN /\ state' = st1
        /\ IF st1.monitors[id].enabled
           THEN /\ runChecks[id] < MaxInFlight
                /\ SetSch(startMonitorInterval(Sch, st1, id))
                /\ runChecks' = beginRunCheck(runChecks, st1, id)
           ELSE /\ SetSch(stopMonitorInterval(Sch, id))
                /\ UNCHANGED runChecks
  /\ UNCHANGED <<restChecks, pendingChecks, pendingStartAll>>
  /\ UNCHANGED extVars

\* socket 'monitor:check-now', up to the await of the probe
SocketCheckNow(id) ==
  /\ id \in DOMAIN state.monitors
  /\ runChecks[id] < MaxInFlight
  /\ runChecks' = beginRunCheck(runChecks, state, id)
  /\ UNCHANGED <<state, monitorIntervals, liveTimers, restChecks, pendingChecks, pendingStartAll>>
  /\ UNCHANGED extVars

\* faulty variant: a tick waits for every probe in flight, of any monitor
TimerTick_Serialized(h) ==
  /\ h \in liveTimers
  /\ \A m \in MonitorIds : runChecks[m] = 0
  /\ runChecks' = beginRunCheck(runChecks, state, h.mon)
  /\ UNCHANGED <<state, monitorIntervals, liveTimers, restChecks, pendingChecks, pendingStartAll>>
  /\ UNCHANGED extVars

\* an interval fires: runCheck(io, monitorId)
TimerTick(h) ==
  /\ h \in liveTimers
  /\ runChecks[h.mon] < MaxInFlight
  /\ runChecks' = beginRunCheck(runChecks, state, h.mon)
  /\ UNCHANGED <<state, monitorIntervals, liveTimers, restChecks, pendingChecks, pendingStartAll>>
  /\ UNCHANGED extVars

\* a staggered first check of startAllMonitors fires
PendingCheckFire(id) ==
  /\ pendingChecks[id] > 0
  /\ runChecks[id] < MaxInFlight
  /\ pendingChecks' = [pendingChecks EXCEPT ![id] = @ - 1]
  /\ runChecks' = beginRunCheck(runChecks, state, id)
  /\ UNCHANGED <<state, monitorIntervals, liveTimers, restChecks, pendingStartAll>>
  /\ UNCHANGED extVars

\* the probe of a runCheck resolves with result
RunCheckComplete(id, result) ==
  /\ runChecks[id] > 0
  /\ getStatusOrDefault(state, id).totalChecks < MaxChecks
  /\ LET st1 == finishRunCheck(state, id, result)
     IN /\ Len(st1.incidents) <= MaxIncidents
        /\ state' = st1
  /\ runChecks' = [runChecks EXCEPT ![id] = @ - 1]
  /\ UNCHANGED <<monitorIntervals, liveTimers, restChecks, pendingChecks, pendingStartAll>>
  /\ UNCHANGED extVars

\* POST /monitors: the monitor is stored, no timer is started
RestCreate(id, data) ==
  /\ Fresh(id)
  /\ state' = createMonitor(state, id, data)
  /\ UNCHANGED <<monitorIntervals, liveTimers, runChecks, restChecks, pendingChecks,
                 pendingStartAll>>
  /\ UNCHANGED extVars

\* PUT /monitors/:id
RestUpdate(id, data) ==
  /\ id \in DOMAIN state.monitors
  /\ state' = updateMonitor(state, id, data)
  /\ UNCHANGED <<monitorIntervals, liveTimers, runChecks, restChecks, pendingChecks,
                 pendingStartAll>>
  /\ UNCHANGED extVars

\* DELETE /monitors/:id
RestDelete(id) ==
  /\ id \in DOMAIN state.monitors
  /\ state' = deleteMonitor(state, id)
  /\ UNCHANGED <<monitorIntervals, liveTimers, runChecks, restChecks, pendingChecks,
                 pendingStartAll>>
  /\ UNCHANGED extVars

\* POST /monitors/:id/check, up to the await of the probe
RestCheckStart(id) ==
  /\ id \in DOMAIN state.monitors
  /\ restChecks[id] < MaxInFlight
  /\ restChecks' = [restChecks EXCEPT ![id] = @ + 1]
  /\ UNCHANGED <<state, monitorIntervals, liveTimers, runChecks, pendingChecks, pendingStartAll>>
  /\ UNCHANGED extVars

\* POST /monitors/:id/check, after the await: updateStatus alone
RestCheckComplete(id, result) ==
  /\ restChecks[id] > 0
  /\ getStatusOrDefault(state, id).totalChecks < MaxChecks
  /\ LET st1 == updateStatus(state, id, result)
     IN /\ Len(st1.incidents) <= MaxIncidents
        /\ state' = st1
  /\ restChecks' = [restChecks EXCEPT ![id] = @ - 1]
  /\ UNCHANGED <<monitorIntervals, liveTimers, runChecks, pendingChecks, pendingStartAll>>
  /\ UNCHANGED extVars

\* socket 'import': importData, stopAllMonitors, startAllMonitors 500 ms later
SocketImport(data) ==
  /\ pendingStartAll < MaxPending
  /\ state' = importData(state, data)
  /\ SetSch(stopAllMonitors(Sch))
  /\ pendingStartAll' = pendingStartAll + 1
  /\ UNCHANGED <<runChecks, restChecks, pendingChecks>>
  /\ UNCHANGED extVars

\* POST /import
RestImport(data) ==
  /\ state' = importData(state, data)
  /\ UNCHANGED <<monitorIntervals, liveTimers, runChecks, restChecks, pendingChecks,
                 pendingStartAll>>
  /\ UNCHANGED extVars

\* the timeout of 'import' fires: startAllMonitors(io)
StartAllFire ==
  /\ pendingStartAll > 0
  /\ \A id \in getEnabledMonitors(state) : pendingChecks[id] < MaxPending
  /\ pendingStartAll' = pendingStartAll - 1
  /\ SetSch(startAllMonitors(Sch, state))
  /\ pendingChecks' = [id \in MonitorIds |->
                         IF id \in getEnabledMonitors(state) THEN pendingChecks[id] + 1
                                                              ELSE pendingChecks[id]]
  /\ UNCHANGED <<state, runChecks, restChecks>>
  /\ UNCHANGED extVars

\* socket 'settings:update' and PUT /settings
UpdateSettings(newSettings) ==
  /\ state' = updateSettings(state, newSettings)
  /\ UNCHANGED <<monitorIntervals, liveTimers, runChecks, restChecks, pendingChecks,
                 pendingStartAll>>
  /\ UNCHANGED extVars

\* socket 'alert:acknowledge' and POST /alerts/:id/acknowledge
AcknowledgeAlert(k) ==
  /\ k \in 1..Len(state.alerts)
  /\ state' = acknowledgeAlert(state, k)
  /\ UNCHANGED <<monitorIntervals, liveTimers, runChecks, restChecks, pendingChecks,
                 pendingStartAll>>
  /\ UNCHANGED extVars

\* socket 'alert:resolve' and POST /alerts/:id/resolve
ResolveAlert(k) ==
  /\ k \in 1..Len(state.alerts)
  /\ state' = resolveAlert(state, k)
  /\ UNCHANGED <<monitorIntervals, liveTimers, runChecks, restChecks, pendingChecks,
                 pendingStartAll>>
  /\ UNCHANGED extVars

DefaultData ==
  [enabled |-> TRUE, schedule |-> DefaultSchedule, name |-> "web", type |-> "http",
   url |-> "http://a"]

(***************************************************************************)
(* Spec: the status / incident / alert state machine under every           *)
(* operation that reaches it without a timer: checks on demand through the *)
(* socket and through REST, creation, deletion and import of monitors,     *)
(* changes of the settings.  A timer adds no behaviour of `state`: its     *)
(* tick is the runCheck of SocketCheckNow.                                 *)
(***************************************************************************)
Next ==
  \/ \E id \in CheckedIds : RestCreate(id, DefaultData)
  \/ \E id \in CheckedIds : SocketDelete(id)
  \/ \E id \in CheckedIds : RestDelete(id)
  \/ \E id \in CheckedIds : SocketCheckNow(id)
  \/ \E id \in CheckedIds, result \in Results : RunCheckComplete(id, result)
  \/ \E id \in CheckedIds : RestCheckStart(id)
  \/ \E id \in CheckedIds, result \in Results : RestCheckComplete(id, result)
  \/ \E id \in CheckedIds : RestImport([x \in {id} |-> DefaultData])
  \/ \E newSettings \in SettingsData : UpdateSettings(newSettings)

Spec == Init /\ [][Next]_vars

(***************************************************************************)
(* Vocabulary of the properties.                                           *)
(***************************************************************************)
\* this step applied a check result to the Status of m (updateStatus ran for m)
Applied(m) ==
  /\ m \in DOMAIN state'.statuses
  /\ state'.statuses[m].totalChecks = getStatusOrDefault(state, m).totalChecks + 1

PreviousStatus(m) == getStatusOrDefault(state, m).status
AppliedResult(m) == state'.statuses[m].status

\* the DOWN entries at the head of a most-recent-first history
LeadingDowns(history) ==
  IF \E i \in 1..Len(history) : history[i] = "UP"
  THEN (CHOOSE i \in 1..Len(history) :
          history[i] = "UP" /\ \A j \in 1..(i - 1) : history[j] = "DOWN") - 1
  ELSE Len(history)

\* the status is DOWN and the run of DOWN results it ends began at an UP result
DownSinceUp(s) ==
  /\ s.status = "DOWN"
  /\ LeadingDowns(s.history) < Len(s.history)

OngoingOf(st, m) == {k \in 1..Len(st.incidents) : IsOngoingFor(m, st.incidents[k])}
ActiveOf(st, m) == {k \in 1..Len(st.alerts) : IsActiveFor(m, st.alerts[k])}
IncidentsOf(st, m) == {k \in 1..Len(st.incidents) : st.incidents[k].monitorId = m}
AlertsOf(st, m) == {k \in 1..Len(st.alerts) : st.alerts[k].monitorId = m}
Tail1(arr) == SubSeq(arr, 2, Len(arr))

(***************************************************************************)
(* C1. The stored consecutiveFailures of a Status equals the number of     *)
(* DOWN results applied since the most recent UP result (the DOWN entries  *)
(* at the head of its history): every step that applies UP leaves it 0,    *)
(* every step that applies DOWN leaves it the previous value plus 1.       *)
(***************************************************************************)
C1_CounterStep ==
  \A m \in MonitorIds :
    Applied(m) =>
      state'.statuses[m].consecutiveFailures =
        IF AppliedResult(m) = "UP" THEN 0
        ELSE getStatusOrDefault(state, m).consecutiveFailures + 1

C1_CounterIsLeadingDowns ==
  \A m \in DOMAIN state.statuses :
    state.statuses[m].consecutiveFailures = LeadingDowns(state.statuses[m].history)

C1_ConsecutiveFailures == [][C1_CounterStep /\ C1_CounterIsLeadingDowns']_vars

\* DOWN, DOWN applied after an UP: the counter is 2; and an UP applied after a DOWN
C1_Witness ==
  \E m \in DOMAIN state.statuses :
    LET s == state.statuses[m]
    IN /\ s.consecutiveFailures = 2
       /\ Len(s.history) >= 4
       /\ s.history[3] = "UP" /\ s.history[4] = "DOWN"

(***************************************************************************)
(* C2. At most one Incident with status 'ongoing' exists per monitor id.   *)
(* Violated: the UP -> DOWN branch of updateStatus opens an incident       *)
(* without looking for an ongoing one.                                     *)
(***************************************************************************)
C2_AtMostOneOngoing ==
  \A m \in MonitorIds : Cardinality(OngoingOf(state, m)) <= 1

(***************************************************************************)
(* C3. A step that applies DOWN to a monitor whose status is UP creates    *)
(* exactly one Incident (ongoing) and exactly one Alert (critical, active) *)
(* for that monitor, whatever the threshold.                               *)
(***************************************************************************)
C3_Step ==
  \A m \in MonitorIds :
    (Applied(m) /\ PreviousStatus(m) = "UP" /\ AppliedResult(m) = "DOWN") =>
      /\ Len(state'.incidents) = Len(state.incidents) + 1
      /\ Tail1(state'.incidents) = state.incidents
      /\ state'.incidents[1].monitorId = m
      /\ state'.incidents[1].status = "ongoing"
      /\ Len(state'.alerts) = Len(state.alerts) + 1
      /\ Tail1(state'.alerts) = state.alerts
      /\ state'.alerts[1].monitorId = m
      /\ state'.alerts[1].severity = "critical"
      /\ state'.alerts[1].status = "active"

C4_Step ==
  \A m \in MonitorIds :
    (Applied(m) /\ PreviousStatus(m) = "DOWN" /\ AppliedResult(m) = "UP"
       /\ state.settings.autoResolve) =>
      /\ OngoingOf(state', m) = {}
      /\ ActiveOf(state', m) = {}
      /\ \A k \in IncidentsOf(state', m) :
           state'.incidents[k].status = "resolved" =>
             state'.incidents[k].resolvedAt = "set" /\ state'.incidents[k].duration = "set"

C4_AutoResolveClears == [][C4_Step]_vars

(***************************************************************************)
(* C5. With auto-resolve disabled, a runCheck that applies UP to a monitor *)
(* whose status is DOWN changes the status of no Incident and of no Alert  *)
(* of that monitor.  Violated: runCheck sets the first active alert of the *)
(* monitor to 'resolved' whatever the setting.                             *)
(***************************************************************************)
C5_Step ==
  \A m \in MonitorIds :
    (Applied(m) /\ runChecks'[m] = runChecks[m] - 1
       /\ PreviousStatus(m) = "DOWN" /\ AppliedResult(m) = "UP"
       /\ ~state.settings.autoResolve) =>
      /\ state'.incidents = state.incidents
      /\ state'.alerts = state.alerts

C5_NoResolveWhenDisabled == [][C5_Step]_vars

(***************************************************************************)
(* C6. While a monitor that was UP stays DOWN, one Incident and one Alert  *)
(* are opened, at the first DOWN: that step adds exactly one of each, the  *)
(* monitor then has an ongoing Incident for as long as it stays DOWN, and  *)
(* no later DOWN result of the run adds an Incident or an Alert, the one   *)
(* at which the counter reaches the threshold included.                    *)
(***************************************************************************)
C6_Step ==
  \A m \in MonitorIds :
    (Applied(m) /\ AppliedResult(m) = "DOWN") =>
      /\ PreviousStatus(m) = "UP" =>
           /\ Len(state'.incidents) = Len(state.incidents) + 1
           /\ Len(state'.alerts) = Len(state.alerts) + 1
      /\ DownSinceUp(getStatusOrDefault(state, m)) =>
           /\ state'.incidents = state.incidents
           /\ state'.alerts = state.alerts

C6_OngoingWhileDown ==
  \A m \in DOMAIN state.statuses :
    DownSinceUp(state.statuses[m]) => OngoingOf(state, m) # {}

C7_Step ==
  \A m \in MonitorIds :
    (m \notin DOMAIN state.monitors /\ m \notin DOMAIN state'.monitors) =>
      /\ m \notin DOMAIN state'.statuses
      /\ Cardinality(IncidentsOf(state', m)) = Cardinality(IncidentsOf(state, m))
      /\ Cardinality(AlertsOf(state', m)) = Cardinality(AlertsOf(state, m))

C7_NoWriteAfterDelete == [][C7_Step]_vars

(***************************************************************************)
(* C13. Results are applied to a Status in the order the checks complete,  *)
(* one completion per step: the step in which a probe of a monitor         *)
(* resolves is the step that applies its result - the result becomes the   *)
(* status and the head of the history, above the results applied before,   *)
(* and totalChecks grows by one - no result is applied without a           *)
(* completion, and no step completes two probes.                           *)
(***************************************************************************)
Completed(m) ==
  \/ runChecks'[m] = runChecks[m] - 1 /\ restChecks'[m] = restChecks[m]
  \/ restChecks'[m] = restChecks[m] - 1 /\ runChecks'[m] = runChecks[m]

InFlight(rc, pc) == {m \in MonitorIds : rc[m] + pc[m] > 0}

C13_Step ==
  /\ \A m \in MonitorIds :
       /\ Completed(m) =>
            /\ Applied(m)
            /\ state'.statuses[m].history =
                 Slice(<<AppliedResult(m)>> \o getStatusOrDefault(state, m).history, HistoryLimit)
       /\ Applied(m) => Completed(m)
       /\ runChecks'[m] + restChecks'[m] >= runChecks[m] + restChecks[m] - 1
  /\ \A m, n \in MonitorIds : (Completed(m) /\ Completed(n)) => m = n

C13_AppliedInCompletionOrder == [][C13_Step]_vars

\* two probes of one monitor were in flight together and resolved one after the other
C13_Witness ==
  \E m \in DOMAIN state.statuses :
    /\ state.statuses[m].history = <<"DOWN", "UP", "DOWN">>
    /\ runChecks[m] = 1 /\ restChecks[m] = 1

(***************************************************************************)
(* SchedSpec: the scheduler under every operation that starts, stops or    *)
(* outlives a timer.  Probes stay in flight: their completion touches no   *)
(* timer.                                                                  *)
(***************************************************************************)
SchedNext ==
  \/ \E id \in MonitorIds, data \in MonitorData : SocketCreate(id, data)
  \/ \E id \in MonitorIds, data \in UpdateData : SocketUpdate(id, data)
  \/ \E id \in MonitorIds : SocketDelete(id)
  \/ \E id \in MonitorIds : SocketToggle(id)
  \/ \E id \in MonitorIds : SocketCheckNow(id)
  \/ \E h \in liveTimers : TimerTick(h)
  \/ \E id \in MonitorIds : PendingCheckFire(id)
  \/ \E id \in MonitorIds, data \in MonitorData : RestCreate(id, data)
  \/ \E id \in MonitorIds, data \in UpdateData : RestUpdate(id, data)
  \/ \E id \in MonitorIds : RestDelete(id)
  \/ \E data \in ImportData : SocketImport(data)
  \/ \E data \in ImportData : RestImport(data)
  \/ StartAllFire

SchedSpec == Init /\ [][SchedNext]_vars

(***************************************************************************)
(* Vocabulary of the scheduler properties.                                 *)
(***************************************************************************)
TimersOf(live, m) == {h \in live : h.mon = m}
IsEnabled(st, m) == m \in DOMAIN st.monitors /\ st.monitors[m].enabled
IsDisabled(st, m) == m \in DOMAIN st.monitors /\ ~st.monitors[m].enabled

(***************************************************************************)
(* C8. A step that deletes a monitor leaves the timer registry without an  *)
(* interval for its id, and no timer of that id alive.  Violated: DELETE   *)
(* /monitors/:id removes the monitor and never stops its interval.         *)
(***************************************************************************)
C8_Step ==
  \A m \in MonitorIds :
    (m \in DOMAIN state.monitors /\ m \notin DOMAIN state'.monitors) =>
      /\ m \notin DOMAIN monitorIntervals'
      /\ TimersOf(liveTimers', m) = {}

C8_DeleteStopsTimer == [][C8_Step]_vars

(***************************************************************************)
(* C9. A step that disables an enabled monitor leaves it stopped: no       *)
(* interval registered or alive for it and no staggered first check        *)
(* pending; and no staggered first check fires for a monitor that is       *)
(* disabled.  Violated: PUT /monitors/:id stores enabled = false and never *)
(* stops the interval, 'monitor:toggle' leaves the pending timeout of      *)
(* startAllMonitors in place, and runCheck does not look at `enabled`.     *)
(***************************************************************************)
C9_Step ==
  \A m \in MonitorIds :
    /\ (IsEnabled(state, m) /\ IsDisabled(state', m)) =>
         /\ m \notin DOMAIN monitorIntervals'
         /\ TimersOf(liveTimers', m) = {}
         /\ pendingChecks'[m] = 0
    /\ (pendingChecks'[m] < pendingChecks[m]) => ~IsDisabled(state, m)

C9_DisabledIsStopped == [][C9_Step]_vars

(***************************************************************************)
(* C10. At most one interval timer is alive per monitor id, and after a    *)
(* step that changes the schedule of a monitor whose interval is running   *)
(* every timer alive for it has the new schedule as its period.  Violated: *)
(* PUT /monitors/:id stores the new schedule and the interval set with the *)
(* old one keeps ticking.                                                  *)
(***************************************************************************)
C10_AtMostOneTimer ==
  \A m \in MonitorIds : Cardinality(TimersOf(liveTimers, m)) <= 1

C10_Step ==
  \A m \in MonitorIds :
    (/\ m \in DOMAIN monitorIntervals
     /\ IsEnabled(state, m) /\ IsEnabled(state', m)
     /\ state'.monitors[m].schedule # state.monitors[m].schedule) =>
      \A h \in TimersOf(liveTimers', m) : h.period = state'.monitors[m].schedule

C10_OneTimerAtNewSchedule == [][C10_Step /\ C10_AtMostOneTimer']_vars

(***************************************************************************)
(* C11. No two checks of one monitor are in flight at the same time.       *)
(* Violated: runCheck keeps no record of a probe in flight, so an interval *)
(* tick, a first check or 'monitor:check-now' starts a second probe while  *)
(* the first has not resolved.                                             *)
(***************************************************************************)
C11_NoOverlappingChecks ==
  \A m \in MonitorIds : runChecks[m] <= 1

(***************************************************************************)
(* ConcSpec: two monitors created through the socket, their intervals      *)
(* ticking and their probes resolving in any order.                        *)
(***************************************************************************)
ConcNext ==
  \/ \E id \in MonitorIds : SocketCreate(id, DefaultData)
  \/ \E h \in liveTimers : TimerTick(h)
  \/ \E id \in MonitorIds, result \in Results : RunCheckComplete(id, result)

ConcSpec == Init /\ [][ConcNext]_vars

(***************************************************************************)
(* C12. A probe in flight for one monitor never blocks another monitor:    *)
(* while it is in flight, a tick of the other monitor's interval can start *)
(* that monitor's check, and a probe of the other monitor can resolve and  *)
(* have its result applied (within the bounds of the model).               *)
(***************************************************************************)
C12_OthersNotBlocked ==
  \A m, n \in MonitorIds :
    (m # n /\ runChecks[m] > 0) =>
      /\ \A h \in TimersOf(liveTimers, n) :
           runChecks[n] < MaxInFlight => ENABLED TimerTick(h)
      /\ \A result \in Results :
           (/\ runChecks[n] > 0
            /\ getStatusOrDefault(state, n).totalChecks < MaxChecks
            /\ Len(finishRunCheck(state, n, result).incidents) <= MaxIncidents) =>
             ENABLED RunCheckComplete(n, result)

\* the first probe of m1 is still in flight; m2, created later, has had two results applied
C12_Witness ==
  /\ "m2" \in DOMAIN state.statuses
  /\ "m1" \in DOMAIN state.statuses
  /\ state.statuses["m1"].totalChecks = 0 /\ runChecks["m1"] >= 1
  /\ state.statuses["m2"].totalChecks = 2 /\ runChecks["m2"] >= 1

(***************************************************************************)
(* RecipSpec: getRecipientsForAlert called on every set of contacts and    *)
(* contact groups of the bounded shapes below.  Group member lists name    *)
(* existing contacts, a deleted contact ("c9") and one contact twice.      *)
(***************************************************************************)
NotifyOnChoices ==
  { [notifyOnDown |-> FALSE, notifyOnUp |-> FALSE, notifyOnIncident |-> FALSE],
    [notifyOnDown |-> FALSE, notifyOnUp |-> FALSE, notifyOnIncident |-> TRUE],
    [notifyOnDown |-> TRUE, notifyOnUp |-> TRUE, notifyOnIncident |-> FALSE] }

ContactRecords(id) ==
  { [ id |-> id, email |-> e, phone |-> p, notifyEmail |-> ne, notifySms |-> ns,
      notifyOnDown |-> f.notifyOnDown, notifyOnUp |-> f.notifyOnUp,
      notifyOnIncident |-> f.notifyOnIncident ] :
      e \in {"null", "a@x.io"}, p \in {"", "0241"}, ne \in BOOLEAN, ns \in BOOLEAN,
      f \in NotifyOnChoices }

ContactMaps ==
  UNION { {cm \in [S -> UNION {ContactRecords(id) : id \in S}] : \A id \in S : cm[id].id = id} :
          S \in SUBSET {"c1", "c2"} }

MemberLists == { <<>>, <<"c1", "c2">>, <<"c2", "c9", "c1">>, <<"c1", "c1">> }

GroupMaps ==
  UNION { [S -> [contactIds : MemberLists]] : S \in SUBSET {"g1", "g2"} }

RecipInit ==
  /\ ExtInit
  /\ \E cm \in ContactMaps, gm \in GroupMaps :
       state = [createInitialState EXCEPT !.contacts = cm, !.contactGroups = gm]
  /\ monitorIntervals = EmptyMap
  /\ liveTimers = {}
  /\ runChecks = [id \in MonitorIds |-> 0]
  /\ restChecks = [id \in MonitorIds |-> 0]
  /\ pendingChecks = [id \in MonitorIds |-> 0]
  /\ pendingStartAll = 0

\* a caller resolves the recipients: the function reads the state and writes nothing
GetRecipients ==
  /\ Len(recipientCalls) < MaxCalls
  /\ recipientCalls' = Append(recipientCalls, getRecipientsForAlert(state))
  /\ UNCHANGED <<coreVars, apiVars, logVars, bootVars, runVars, diskVars, notifyVars, netVars, probeVars>>

RecipNext == GetRecipients

RecipSpec == RecipInit /\ [][RecipNext]_vars

Ids(recipients) == [i \in 1..Len(recipients) |-> recipients[i].id]
NoDuplicates(seq) == \A i, j \in 1..Len(seq) : seq[i] = seq[j] => i = j
IdSet(recipients) == {recipients[i].id : i \in 1..Len(recipients)}
GroupsNaming(st, id) ==
  {g \in DOMAIN st.contactGroups :
     \E i \in 1..Len(st.contactGroups[g].contactIds) : st.contactGroups[g].contactIds[i] = id}

(***************************************************************************)
(* C14. getRecipientsForAlert is idempotent and writes nothing: a call     *)
(* leaves the state as it was and returns what the call before it on the   *)
(* same contacts and groups returned; and no contact appears twice in      *)
(* allRecipients, emailRecipients or smsRecipients, however many groups    *)
(* name it.                                                                *)
(***************************************************************************)
C14_Step ==
  (recipientCalls' # recipientCalls) =>
    LET r == recipientCalls'[Len(recipientCalls')]
    IN /\ state' = state
       /\ Len(recipientCalls) >= 1 => r = recipientCalls[Len(recipientCalls)]
       /\ NoDuplicates(Ids(r.allRecipients))
       /\ NoDuplicates(Ids(r.emailRecipients))
       /\ NoDuplicates(Ids(r.smsRecipients))

C14_IdempotentNoDuplicates == [][C14_Step]_vars

\* two calls made; c1 is a direct contact named by both groups and is an email and SMS recipient
C14_Witness ==
  /\ Len(recipientCalls) = 2
  /\ GroupsNaming(state, "c1") = {"g1", "g2"}
  /\ "c1" \in IdSet(recipientCalls[2].emailRecipients)
  /\ "c1" \in IdSet(recipientCalls[2].smsRecipients)

ContactProfiles(id, phone) ==
  { [ id |-> id, email |-> e, phone |-> p, notifyEmail |-> TRUE, notifySms |-> ns,
      notifyOnDown |-> TRUE, notifyOnUp |-> TRUE, notifyOnIncident |-> TRUE ] :
      e \in {"null", id}, p \in {"null", phone}, ns \in BOOLEAN }

PhoneOf == [c1 |-> "0241", c2 |-> "0242", c3 |-> "0243"]

NotifyContactMaps ==
  UNION { {cm \in [S -> UNION {ContactProfiles(id, PhoneOf[id]) : id \in S}] :
             \A id \in S : cm[id].id = id} : S \in SUBSET {"c1", "c2", "c3"} }

NotifySettings ==
  { [createInitialState.settings EXCEPT !.emailEnabled = ee, !.smsEnabled = se,
        !.ttsEnabled = te, !.smtpHost = smtp, !.smtpUser = smtp] :
      ee \in BOOLEAN, se \in BOOLEAN, te \in BOOLEAN, smtp \in {"", "pulse"} }

Outcomes == {"sent", "failed"}

NotifyInit ==
  /\ ExtInit
  /\ \E cm \in NotifyContactMaps, ns \in NotifySettings :
       state = [createInitialState EXCEPT !.contacts = cm, !.settings = ns]
  /\ monitorIntervals = EmptyMap
  /\ liveTimers = {}
  /\ runChecks = [id \in MonitorIds |-> 0]
  /\ restChecks = [id \in MonitorIds |-> 0]
  /\ pendingChecks = [id \in MonitorIds |-> 0]
  /\ pendingStartAll = 0

\* runCheck calls sendAlertNotification(alert, monitor)
SendAlertStart ==
  /\ dispatch.pc = "idle"
  /\ dispatch' = beginSendAlertNotification(state)
  /\ UNCHANGED <<coreVars, apiVars, logVars, bootVars, runVars, diskVars, outbox, recipVars, netVars, probeVars>>

\* the TTS step: skipped when sound or TTS is off, else speak() resolves either way
SpeakStep(outcome) ==
  /\ dispatch.pc = "tts"
  /\ dispatch' = [dispatch EXCEPT
                    !.pc = "email",
                    !.tts = IF dispatch.settings.soundEnabled /\ dispatch.settings.ttsEnabled
                            THEN outcome ELSE "none"]
  /\ UNCHANGED <<coreVars, apiVars, logVars, bootVars, runVars, diskVars, outbox, recipVars, netVars, probeVars>>

\* one turn of the email loop
SendEmailStep(outcome) ==
  /\ dispatch.pc = "email"
  /\ dispatch.settings.emailEnabled
  /\ dispatch.next <= Len(dispatch.emailRecipients)
  /\ outbox' = sendEmail(outbox, state.settings, dispatch.emailRecipients[dispatch.next].email,
                         outcome)
  /\ dispatch' = afterSendEmail(dispatch, outcome)
  /\ UNCHANGED <<coreVars, apiVars, logVars, bootVars, runVars, diskVars, recipVars, netVars, probeVars>>

\* the SMS step, after the email loop ended or was skipped
SendSmsStep(outcome) ==
  /\ dispatch.pc = "email"
  /\ ~dispatch.settings.emailEnabled \/ dispatch.next > Len(dispatch.emailRecipients)
  /\ outbox' = IF dispatch.settings.smsEnabled /\ Len(dispatch.smsRecipients) > 0
               THEN sendSmsBatch(outbox, state.settings, Phones(dispatch.smsRecipients), outcome)
               ELSE outbox
  /\ dispatch' = [dispatch EXCEPT !.pc = "done"]
  /\ UNCHANGED <<coreVars, apiVars, logVars, bootVars, runVars, diskVars, recipVars, netVars, probeVars>>

NotifyNext ==
  \/ SendAlertStart
  \/ \E outcome \in Outcomes : SpeakStep(outcome)
  \/ \E outcome \in Outcomes : SendEmailStep(outcome)
  \/ \E outcome \in Outcomes : SendSmsStep(outcome)

NotifySpec == NotifyInit /\ [][NotifyNext]_vars

SmsRequests(box) == SelectSeq(box, LAMBDA q : q.kind = "sms")
EmailRequests(box) == SelectSeq(box, LAMBDA q : q.kind = "email")
SmsEligible(st) ==
  {id \in DOMAIN st.contacts :
     WantsNotification(st.contacts[id]) /\ Truthy(st.contacts[id].phone)
       /\ st.contacts[id].notifySms}
EmailEligible(st) ==
  {id \in DOMAIN st.contacts :
     WantsNotification(st.contacts[id]) /\ Truthy(st.contacts[id].email)
       /\ st.contacts[id].notifyEmail}

(***************************************************************************)
(* C16. A finished dispatch with SMS enabled and n >= 1 SMS recipients has *)
(* issued exactly one SMS request, whose recipient list is the n phone     *)
(* numbers; with SMS disabled or no SMS recipient it has issued none; and  *)
(* at no point of a dispatch are there two SMS requests.                   *)
(***************************************************************************)
C16_OneBatchRequest ==
  /\ Len(SmsRequests(outbox)) <= 1
  /\ dispatch.pc = "done" =>
       IF state.settings.smsEnabled /\ SmsEligible(state) # {}
       THEN /\ Len(SmsRequests(outbox)) = 1
            /\ Len(SmsRequests(outbox)[1].to) = Cardinality(SmsEligible(state))
            /\ {SmsRequests(outbox)[1].to[i] : i \in 1..Len(SmsRequests(outbox)[1].to)}
                 = {state.contacts[id].phone : id \in SmsEligible(state)}
       ELSE SmsRequests(outbox) = <<>>

\* three SMS recipients: one request naming the three numbers
C16_Witness ==
  /\ dispatch.pc = "done"
  /\ Cardinality(SmsEligible(state)) = 3
  /\ Len(SmsRequests(outbox)) = 1
  /\ Len(SmsRequests(outbox)[1].to) = 3

(***************************************************************************)
(* C17. A finished dispatch with email enabled has called sendEmail once   *)
(* for every email recipient, in their order, whichever of the sends (or   *)
(* the TTS step) failed; and the failures do not keep the SMS request from *)
(* being issued.                                                           *)
(***************************************************************************)
C17_FailuresDoNotBlock ==
  dispatch.pc = "done" =>
    /\ state.settings.emailEnabled =>
         /\ Len(dispatch.called) = Cardinality(EmailEligible(state))
         /\ dispatch.called =
              [i \in 1..Len(dispatch.emailRecipients) |-> dispatch.emailRecipients[i].email]
         /\ Truthy(state.settings.smtpHost) =>
              Len(EmailRequests(outbox)) = Cardinality(EmailEligible(state))
    /\ (state.settings.smsEnabled /\ SmsEligible(state) # {}) =>
         Len(SmsRequests(outbox)) = 1

\* TTS failed and the first of two mails failed: the second mail and the SMS request went out
C17_Witness ==
  /\ dispatch.pc = "done"
  /\ dispatch.tts = "failed"
  /\ Len(EmailRequests(outbox)) >= 2
  /\ EmailRequests(outbox)[1].result = "failed"
  /\ EmailRequests(outbox)[2].result = "sent"
  /\ Len(SmsRequests(outbox)) = 1

(***************************************************************************)
(* NetSpec: the network self-check started by startNetworkCheck, one check *)
(* per period.  A check settles within its 6 s timeout, before the next    *)
(* tick; the time it takes is not counted.                                 *)
(***************************************************************************)
Net ==
  [ state |-> state, lastNetworkNotificationTime |-> lastNetworkNotificationTime,
    lastNetworkNotificationType |-> lastNetworkNotificationType, netEvents |-> netEvents ]

\* the interval of startNetworkCheck fires: previousStatus is read, the probe starts
NetCheckStart ==
  /\ netCheck.pc = "idle"
  /\ now < StartTime + MaxTicks * NetworkCheckPeriod
  /\ now' = now + NetworkCheckPeriod
  /\ netCheck' = [pc |-> "probing", previousStatus |-> state.networkStatus.isConnected]
  /\ UNCHANGED <<coreVars, apiVars, logVars, bootVars, runVars, diskVars, lastNetworkNotificationTime, lastNetworkNotificationType, netEvents,
                 recipVars, notifyVars, probeVars>>

\* the probe settles: connected, or any error or the timeout
NetCheckComplete(isConnected) ==
  /\ netCheck.pc = "probing"
  /\ LET net1 == checkNetworkConnectivity(Net, netCheck.previousStatus, isConnected, now)
     IN /\ state' = net1.state
        /\ lastNetworkNotificationTime' = net1.lastNetworkNotificationTime
        /\ lastNetworkNotificationType' = net1.lastNetworkNotificationType
        /\ netEvents' = net1.netEvents
  /\ netCheck' = [pc |-> "idle"]
  /\ UNCHANGED <<monitorIntervals, liveTimers, runChecks, restChecks, pendingChecks,
                 pendingStartAll, now, recipVars, notifyVars, probeVars, apiVars, logVars,
                 bootVars, runVars, diskVars>>

NetNext ==
  \/ NetCheckStart
  \/ \E isConnected \in BOOLEAN : NetCheckComplete(isConnected)

NetSpec == Init /\ [][NetNext]_vars

Sent(kindIsConnected) ==
  {k \in 1..Len(netEvents) :
     netEvents[k].notified /\ netEvents[k].isConnected = kindIsConnected}

(***************************************************************************)
(* C18. No two self-check notifications of one kind are sent within the    *)
(* cooldown window, and two losses of connectivity within one window, the  *)
(* first of them more than a window after the last 'disconnected'          *)
(* notification, produce exactly one 'disconnected' notification.          *)
(* Violated in its second half: the code sends nothing of either kind      *)
(* within the window and never repeats the kind it sent last, however long *)
(* ago, so after an unannounced recovery both losses go unannounced.       *)
(***************************************************************************)
C18_SameKindSpaced ==
  \A b \in BOOLEAN : \A i, j \in Sent(b) :
    i < j => netEvents[j].time - netEvents[i].time > NETWORK_NOTIFICATION_COOLDOWN

C18_OnePerWindow ==
  \A i, j \in 1..Len(netEvents) :
    (/\ i < j
     /\ ~netEvents[i].isConnected /\ ~netEvents[j].isConnected
     /\ netEvents[j].time - netEvents[i].time <= NETWORK_NOTIFICATION_COOLDOWN
     /\ \A k \in Sent(FALSE) :
          k < i => netEvents[i].time - netEvents[k].time > NETWORK_NOTIFICATION_COOLDOWN) =>
      Cardinality({k \in Sent(FALSE) : i <= k /\ k <= j}) = 1

C18_CooldownDedup == C18_SameKindSpaced /\ C18_OnePerWindow

(***************************************************************************)
(* C19. A self-check that finds the connectivity the state already records *)
(* (still connected, still disconnected) sends no notification and creates *)
(* no Incident and no Alert.                                               *)
(***************************************************************************)
C19_Step ==
  (/\ netCheck.pc = "probing" /\ netCheck'.pc = "idle"
   /\ state'.networkStatus.isConnected = state.networkStatus.isConnected) =>
    /\ netEvents' = netEvents
    /\ lastNetworkNotificationTime' = lastNetworkNotificationTime
    /\ lastNetworkNotificationType' = lastNetworkNotificationType
    /\ state'.incidents = state.incidents
    /\ state'.alerts = state.alerts

C19_NoChangeNoNotification == [][C19_Step]_vars

\* connectivity was lost once and two later checks found it still lost
C19_Witness ==
  /\ netCheck.pc = "idle"
  /\ ~state.networkStatus.isConnected
  /\ Len(netEvents) = 1
  /\ now >= netEvents[1].time + 2 * NetworkCheckPeriod
  /\ Len(state.incidents) = 1

(***************************************************************************)
(* ProbeSpec: checkMonitorOnce on every monitor of the bounded shapes and  *)
(* every outcome its library call can have for that monitor.               *)
(***************************************************************************)
MonitorTypes ==
  {"http", "HTTPS", "icmp", "ping", "tcp", "TCP", "ssh", "telnet", "sftp", "ftp", "undefined"}

MonitorConfigs ==
  [ type : MonitorTypes, port : {"valid", "missing", "outOfRange"},
    privateKey : {"none", "valid", "malformed"} ]

\* net.Socket.connect throws on a port outside 0..65535 and may throw on a missing one;
\* ssh2's connect may throw on a key it cannot parse and on a port it rejects
LibraryOutcomes(monitor) ==
  LET type == ToLowerCase(monitor.type)
  IN IF type = "tcp"
     THEN CASE monitor.port = "outOfRange" -> {"throws"}
            [] monitor.port = "missing" -> {"throws", "error"}
            [] OTHER -> {"connect", "timeout", "error"}
     ELSE IF type \in {"ssh", "sftp"}
     THEN IF monitor.privateKey = "malformed" \/ monitor.port = "outOfRange"
          THEN {"throws", "error"}
          ELSE {"connect", "timeout", "error"}
     ELSE {"connect", "timeout", "error", "throws"}

\* a caller awaits checkMonitorOnce(monitor)
CheckMonitorOnce(monitor, outcome) ==
  /\ outcome \in LibraryOutcomes(monitor)
  /\ probe' = [ pc |-> "settled", monitor |-> monitor, outcome |-> outcome,
                result |-> checkMonitorOnce(monitor, outcome) ]
  /\ UNCHANGED <<coreVars, apiVars, logVars, bootVars, runVars, diskVars, recipVars, notifyVars, netVars, exchange>>

ProbeNext ==
  \E monitor \in MonitorConfigs, outcome \in {"connect", "timeout", "error", "throws"} :
    CheckMonitorOnce(monitor, outcome)

ProbeSpec == Init /\ [][ProbeNext]_vars

(***************************************************************************)
(* C20. checkMonitorOnce never rejects: whatever the monitor and whatever  *)
(* the outcome, its promise resolves with a result, and every outcome but  *)
(* a successful connection resolves with status DOWN.  Violated: checkTcp, *)
(* checkSsh and checkSftp call connect() inside a Promise executor with no *)
(* try/catch, so an exception thrown by connect() itself (a port out of    *)
(* range, a key that does not parse) rejects the promise.                  *)
(***************************************************************************)
C20_NeverRejects ==
  probe.pc = "settled" =>
    /\ probe.result.settled = "resolved"
    /\ probe.outcome # "connect" => probe.result.status = "DOWN"

(***************************************************************************)
(* StageSpec: one probe of each kind against a peer that, at every stage   *)
(* of the exchange, answers, fails or stays silent while time passes.  A   *)
(* timer that is due fires before time moves on.                           *)
(***************************************************************************)
ProbeKinds == {"http", "https", "icmp", "tcp", "ssh", "telnet", "sftp"}
ConfiguredTimeouts == {0, 5000}   \* 0: no timeout configured

ProbeStart(kind, timeout) ==
  /\ exchange.pc = "idle"
  /\ exchange' = beginProbe(kind, timeout)
  /\ UNCHANGED <<coreVars, apiVars, logVars, bootVars, runVars, diskVars, recipVars, notifyVars, netVars, probe>>

PeerAnswers(ok) ==
  /\ exchange.pc = "waiting"
  /\ exchange' = onAnswer(exchange, ok)
  /\ UNCHANGED <<coreVars, apiVars, logVars, bootVars, runVars, diskVars, recipVars, notifyVars, netVars, probe>>

PeerFails ==
  /\ exchange.pc = "waiting"
  /\ exchange' = onError(exchange)
  /\ UNCHANGED <<coreVars, apiVars, logVars, bootVars, runVars, diskVars, recipVars, notifyVars, netVars, probe>>

TimerFires ==
  /\ exchange.pc = "waiting"
  /\ exchange.deadline # NoTimer
  /\ exchange.elapsed >= exchange.deadline
  /\ exchange' = onTimeout(exchange)
  /\ UNCHANGED <<coreVars, apiVars, logVars, bootVars, runVars, diskVars, recipVars, notifyVars, netVars, probe>>

\* the peer stays silent for one step of time
TimePasses ==
  /\ exchange.pc = "waiting"
  /\ exchange.elapsed < MaxWait * TimeStep
  /\ ~(exchange.deadline # NoTimer /\ exchange.elapsed >= exchange.deadline)
  /\ exchange' = [exchange EXCEPT !.elapsed = @ + TimeStep]
  /\ UNCHANGED <<coreVars, apiVars, logVars, bootVars, runVars, diskVars, recipVars, notifyVars, netVars, probe>>

StageNext ==
  \/ \E kind \in ProbeKinds, timeout \in ConfiguredTimeouts : ProbeStart(kind, timeout)
  \/ \E ok \in BOOLEAN : PeerAnswers(ok)
  \/ PeerFails
  \/ TimerFires
  \/ TimePasses

StageSpec == Init /\ [][StageNext]_vars

(***************************************************************************)
(* C21. Every probe resolves no later than its timeout, whatever the peer  *)
(* does at any stage: a probe still waiting has not outlived its timeout,  *)
(* a probe that resolved did so with UP or DOWN, and what a timer ended is *)
(* never UP unless the request itself had been answered.  Violated:        *)
(* checkSftp clears its timer before sftp.readdir, so a peer that opens    *)
(* the SFTP subsystem and never answers the listing leaves the probe       *)
(* unresolved for ever; and checkHttp on an https url waits for getSSLInfo *)
(* up to 5 s after the response, past the timeout of the monitor.          *)
(***************************************************************************)
C21_ResolvesByTimeout ==
  /\ exchange.pc = "waiting" => exchange.elapsed <= exchange.timeout
  /\ exchange.pc = "settled" =>
       /\ exchange.elapsed <= exchange.timeout
       /\ exchange.status \in {"UP", "DOWN"}
       /\ (exchange.by = "timeout" /\ exchange.verdict = "none") => exchange.status = "DOWN"

(***************************************************************************)
(* ApiSpec: the socket handlers and the REST routes of monitors and alerts *)
(* as their caller sees them: each request with the reply it gets, the     *)
(* requests that are refused and that find nothing included.  Probes       *)
(* resolve in between.                                                     *)
(***************************************************************************)
OtherExt == <<recipVars, notifyVars, netVars, probeVars, logVars, bootVars, runVars, diskVars>>

\* socket 'monitor:create'
OnMonitorCreate(id, data) ==
  /\ reply.seq < MaxRequests
  /\ Fresh(id)
  /\ IF ~validateMonitorConfig(data).valid
     THEN /\ reply' = Reply("monitor:create", id, "error", "none")
          /\ UNCHANGED coreVars
     ELSE LET st1 == createMonitor(state, id, data)
          IN /\ state' = st1
             /\ SetSch(startMonitorInterval(Sch, st1, id))
             /\ runChecks' = IF st1.monitors[id].enabled
                             THEN beginRunCheck(runChecks, st1, id) ELSE runChecks
             /\ reply' = Reply("monitor:create", id, "success", st1.monitors[id])
             /\ UNCHANGED <<restChecks, pendingChecks, pendingStartAll>>
  /\ UNCHANGED OtherExt

\* socket 'monitor:update': no validation of the merged definition
OnMonitorUpdate(id, data) ==
  /\ reply.seq < MaxRequests
  /\ IF id \notin DOMAIN state.monitors
     THEN /\ reply' = Reply("monitor:update", id, "error", "none")
          /\ UNCHANGED coreVars
     ELSE LET st1 == updateMonitor(state, id, data)
          IN /\ state' = st1
             /\ SetSch(startMonitorInterval(stopMonitorInterval(Sch, id), st1, id))
             /\ reply' = Reply("monitor:update", id, "success", st1.monitors[id])
             /\ UNCHANGED <<runChecks, restChecks, pendingChecks, pendingStartAll>>
  /\ UNCHANGED OtherExt

\* socket 'monitor:delete': stopMonitorInterval comes before the lookup
OnMonitorDelete(id) ==
  /\ reply.seq < MaxRequests
  /\ SetSch(stopMonitorInterval(Sch, id))
  /\ state' = deleteMonitor(state, id)
  /\ reply' = Reply("monitor:delete", id,
                    IF id \in DOMAIN state.monitors THEN "success" ELSE "error", "none")
  /\ UNCHANGED <<runChecks, restChecks, pendingChecks, pendingStartAll>>
  /\ UNCHANGED OtherExt

\* socket 'monitor:toggle'
OnMonitorToggle(id) ==
  /\ reply.seq < MaxRequests
  /\ IF id \notin DOMAIN state.monitors
     THEN /\ reply' = Reply("monitor:toggle", id, "error", "none")
          /\ UNCHANGED coreVars
     ELSE LET st1 == updateMonitor(state, id, [enabled |-> ~state.monitors[id].enabled])
          IN /\ state' = st1
             /\ IF st1.monitors[id].enabled
                THEN /\ runChecks[id] < MaxInFlight
                     /\ SetSch(startMonitorInterval(Sch, st1, id))
                     /\ runChecks' = beginRunCheck(runChecks, st1, id)
                ELSE /\ SetSch(stopMonitorInterval(Sch, id))
                     /\ UNCHANGED runChecks
             /\ reply' = Reply("monitor:toggle", id, "success", "none")
             /\ UNCHANGED <<restChecks, pendingChecks, pendingStartAll>>
  /\ UNCHANGED OtherExt

\* socket 'monitor:check-now': await runCheck(io, id), then success; runCheck returns at once
\* for an id without monitor, otherwise the callback follows the check
OnMonitorCheckNow(id) ==
  /\ reply.seq < MaxRequests
  /\ IF id \notin DOMAIN state.monitors
     THEN /\ reply' = Reply("monitor:check-now", id, "success", "none")
          /\ UNCHANGED runChecks
     ELSE /\ runChecks[id] < MaxInFlight
          /\ runChecks' = beginRunCheck(runChecks, state, id)
          /\ reply' = Reply("monitor:check-now", id, "pending", "none")
  /\ UNCHANGED <<state, monitorIntervals, liveTimers, restChecks, pendingChecks, pendingStartAll>>
  /\ UNCHANGED OtherExt

\* POST /monitors
PostMonitors(id, data) ==
  /\ reply.seq < MaxRequests
  /\ Fresh(id)
  /\ IF ~validateMonitorConfig(data).valid
     THEN /\ reply' = Reply("POST /monitors", id, "error", "none")
          /\ UNCHANGED state
     ELSE LET st1 == createMonitor(state, id, data)
          IN /\ state' = st1
             /\ reply' = Reply("POST /monitors", id, "success", st1.monitors[id])
  /\ UNCHANGED <<monitorIntervals, liveTimers, runChecks, restChecks, pendingChecks,
                 pendingStartAll>>
  /\ UNCHANGED OtherExt

\* PUT /monitors/:id: no validation of the merged definition
PutMonitorsId(id, data) ==
  /\ reply.seq < MaxRequests
  /\ IF id \notin DOMAIN state.monitors
     THEN /\ reply' = Reply("PUT /monitors/:id", id, "error", "none")
          /\ UNCHANGED state
     ELSE LET st1 == updateMonitor(state, id, data)
          IN /\ state' = st1
             /\ reply' = Reply("PUT /monitors/:id", id, "success", st1.monitors[id])
  /\ UNCHANGED <<monitorIntervals, liveTimers, runChecks, restChecks, pendingChecks,
                 pendingStartAll>>
  /\ UNCHANGED OtherExt

\* DELETE /monitors/:id
DeleteMonitorsId(id) ==
  /\ reply.seq < MaxRequests
  /\ state' = deleteMonitor(state, id)
  /\ reply' = Reply("DELETE /monitors/:id", id,
                    IF id \in DOMAIN state.monitors THEN "success" ELSE "error", "none")
  /\ UNCHANGED <<monitorIntervals, liveTimers, runChecks, restChecks, pendingChecks,
                 pendingStartAll>>
  /\ UNCHANGED OtherExt

\* POST /monitors/:id/check, up to the await of the probe
PostMonitorsIdCheck(id) ==
  /\ reply.seq < MaxRequests
  /\ IF id \notin DOMAIN state.monitors
     THEN /\ reply' = Reply("POST /monitors/:id/check", id, "error", "none")
          /\ UNCHANGED restChecks
     ELSE /\ restChecks[id] < MaxInFlight
          /\ restChecks' = [restChecks EXCEPT ![id] = @ + 1]
          /\ reply' = Reply("POST /monitors/:id/check", id, "pending", "none")
  /\ UNCHANGED <<state, monitorIntervals, liveTimers, runChecks, pendingChecks, pendingStartAll>>
  /\ UNCHANGED OtherExt

\* alerts.find(a => a.id === alertId): its index, 0 when there is none
AlertIndex(st, alertId) == FindIndex({k \in 1..Len(st.alerts) : st.alerts[k].id = alertId})

\* socket 'alert:acknowledge' and POST /alerts/:id/acknowledge
OnAlertAcknowledge(alertId) ==
  /\ reply.seq < MaxRequests
  /\ LET k == AlertIndex(state, alertId)
     IN IF k = 0
        THEN /\ reply' = Reply("alert:acknowledge", alertId, "error", "none")
             /\ UNCHANGED state
        ELSE /\ state' = acknowledgeAlert(state, k)
             /\ reply' = Reply("alert:acknowledge", alertId, "success", "none")
  /\ UNCHANGED <<monitorIntervals, liveTimers, runChecks, restChecks, pendingChecks,
                 pendingStartAll>>
  /\ UNCHANGED OtherExt

\* socket 'alert:resolve' and POST /alerts/:id/resolve
OnAlertResolve(alertId) ==
  /\ reply.seq < MaxRequests
  /\ LET k == AlertIndex(state, alertId)
     IN IF k = 0
        THEN /\ reply' = Reply("alert:resolve", alertId, "error", "none")
             /\ UNCHANGED state
        ELSE /\ state' = resolveAlert(state, k)
             /\ reply' = Reply("alert:resolve", alertId, "success", "none")
  /\ UNCHANGED <<monitorIntervals, liveTimers, runChecks, restChecks, pendingChecks,
                 pendingStartAll>>
  /\ UNCHANGED OtherExt

\* GET /monitors
GetMonitors ==
  /\ reply.seq < MaxRequests
  /\ reply' = Reply("GET /monitors", "all", "success", getAllMonitors(state))
  /\ UNCHANGED <<coreVars, OtherExt>>

\* GET /monitors/:id
GetMonitorsId(id) ==
  /\ reply.seq < MaxRequests
  /\ reply' = IF id \in DOMAIN state.monitors
              THEN Reply("GET /monitors/:id", id, "success", getMonitor(state, id))
              ELSE Reply("GET /monitors/:id", id, "error", "none")
  /\ UNCHANGED <<coreVars, OtherExt>>

\* socket 'export' and GET /export
GetExport ==
  /\ reply.seq < MaxRequests
  /\ reply' = Reply("GET /export", "all", "success", exportData(state))
  /\ UNCHANGED <<coreVars, OtherExt>>

\* GET /settings
GetSettings ==
  /\ reply.seq < MaxRequests
  /\ reply' = Reply("GET /settings", "all", "success", getSettings(state))
  /\ UNCHANGED <<coreVars, OtherExt>>

CreateRequests ==
  { [name |-> "web", type |-> "http", url |-> "http://a"],
    [name |-> "db", type |-> "tcp", host |-> "h", port |-> "5432"],
    [name |-> "box", type |-> "ssh", host |-> "h", username |-> "root", password |-> "pw1"],
    [name |-> "db", type |-> "tcp", host |-> "h"],
    [name |-> "files", type |-> "ftp", host |-> "h"] }

UpdateRequests ==
  { [port |-> "null"], [type |-> "ftp"], [password |-> "pw2"], [enabled |-> FALSE],
    [schedule |-> 30] }

AlertIds == 1..2

ApiNext ==
  \/ \E id \in MonitorIds, data \in CreateRequests : OnMonitorCreate(id, data)
  \/ \E id \in MonitorIds, data \in UpdateRequests : OnMonitorUpdate(id, data)
  \/ \E id \in MonitorIds : OnMonitorDelete(id)
  \/ \E id \in MonitorIds : OnMonitorToggle(id)
  \/ \E id \in MonitorIds : OnMonitorCheckNow(id)
  \/ \E id \in MonitorIds, data \in CreateRequests : PostMonitors(id, data)
  \/ \E id \in MonitorIds, data \in UpdateRequests : PutMonitorsId(id, data)
  \/ \E id \in MonitorIds : DeleteMonitorsId(id)
  \/ \E id \in MonitorIds : PostMonitorsIdCheck(id)
  \/ \E alertId \in AlertIds : OnAlertAcknowledge(alertId)
  \/ \E alertId \in AlertIds : OnAlertResolve(alertId)
  \/ GetMonitors
  \/ \E id \in MonitorIds : GetMonitorsId(id)
  \/ GetExport
  \/ GetSettings
  \/ \E id \in MonitorIds, result \in Results : RunCheckComplete(id, result)
  \/ \E id \in MonitorIds, result \in Results : RestCheckComplete(id, result)

ApiSpec == Init /\ [][ApiNext]_vars

(***************************************************************************)
(* C22. No monitor stored in the state, and no monitor the scheduler holds *)
(* a timer for, has a definition validateMonitorConfig rejects.  Violated: *)
(* validateMonitorConfig is called at creation only; 'monitor:update' and  *)
(* PUT /monitors/:id store the merged definition unchecked, and the socket *)
(* handler restarts the timer on it.                                       *)
(***************************************************************************)
C22_StoredMonitorsValid ==
  /\ \A id \in DOMAIN state.monitors : validateMonitorConfig(state.monitors[id]).valid
  /\ \A id \in DOMAIN monitorIntervals :
       id \in DOMAIN state.monitors => validateMonitorConfig(state.monitors[id]).valid

MonitorOps ==
  { "monitor:update", "monitor:delete", "monitor:toggle", "monitor:check-now",
    "PUT /monitors/:id", "DELETE /monitors/:id", "POST /monitors/:id/check" }
AlertOps == {"alert:acknowledge", "alert:resolve"}

\* this step handled a request
Handled == reply'.seq # reply.seq

(***************************************************************************)
(* C23. A request (update, delete, toggle, check-now, acknowledge,         *)
(* resolve) that names a monitor id or an alert id that does not exist is  *)
(* answered with an error, and leaves monitors, statuses, incidents,       *)
(* alerts and timers as they were.  Violated: 'monitor:check-now' awaits   *)
(* runCheck, which returns without a word for an id it does not find, and  *)
(* answers success; and 'monitor:delete' stops the interval registered     *)
(* under the id before it looks the monitor up.                            *)
(***************************************************************************)
C23_Step ==
  Handled =>
    /\ (reply'.op \in MonitorOps /\ reply'.target \notin DOMAIN state.monitors) =>
         /\ reply'.result = "error"
         /\ state' = state
         /\ monitorIntervals' = monitorIntervals /\ liveTimers' = liveTimers
    /\ (reply'.op \in AlertOps /\ AlertIndex(state, reply'.target) = 0) =>
         /\ reply'.result = "error"
         /\ state' = state
         /\ monitorIntervals' = monitorIntervals /\ liveTimers' = liveTimers

C23_UnknownIdIsAnError == [][C23_Step]_vars

\* the state with every stored credential of every monitor replaced by secret
WithCredentials(st, secret) ==
  [st EXCEPT !.monitors =
     [id \in DOMAIN st.monitors |->
        [f \in DOMAIN st.monitors[id] |->
           IF f \in CredentialFields /\ st.monitors[id][f] # "null"
           THEN secret ELSE st.monitors[id][f]]]]

Secrets == {"pw1", "pw2", "pw3"}

\* what a successful request hands out, as a function of the state it leaves
Response(op, st, id) ==
  CASE op = "GET /monitors" -> getAllMonitors(st)
    [] op = "GET /export" -> exportData(st)
    [] op = "GET /settings" -> getSettings(st)
    [] op \in {"GET /monitors/:id", "monitor:create", "monitor:update", "POST /monitors",
               "PUT /monitors/:id"} -> getMonitor(st, id)

ResponseOps ==
  { "GET /monitors", "GET /export", "GET /settings", "GET /monitors/:id", "monitor:create",
    "monitor:update", "POST /monitors", "PUT /monitors/:id" }

(***************************************************************************)
(* C24. No response carries a stored credential: what a monitor list, a    *)
(* single-monitor read, a create or update response, an export or a        *)
(* settings read hands out is the same for two states that differ only in  *)
(* the passwords, private keys and sudo passwords stored.  Violated: GET   *)
(* /monitors/:id and the create and update handlers hand out the stored    *)
(* monitor object itself, password included; only getAllMonitors and       *)
(* exportData strip it.                                                    *)
(***************************************************************************)
C24_Step ==
  (Handled /\ reply'.result = "success" /\ reply'.op \in ResponseOps) =>
    /\ reply'.body = Response(reply'.op, state', reply'.target)
    /\ \A secret \in Secrets :
         Response(reply'.op, WithCredentials(state', secret), reply'.target) = reply'.body

C24_NoCredentialInResponse == [][C24_Step]_vars

(***************************************************************************)
(* LoadSpec: the server starts and calls loadState once, on every state    *)
(* file of the bounded shapes.                                             *)
(***************************************************************************)
Collections == {LoadOrder[i] : i \in 1..Len(LoadOrder)}

\* the collections new Map(...) or .map(...) can throw on
Throwing == {"contacts", "contactGroups", "monitors", "statuses"}

SnapshotForms ==
  { data \in [Collections -> {"absent", "ok", "malformed"}] :
      \A c \in Collections : data[c] = "malformed" => c \in Throwing }

StateFiles ==
  { [kind |-> k, data |-> [c \in Collections |-> "absent"]] :
      k \in {"missing", "unreadable", "invalidJson"} }
    \cup { [kind |-> "snapshot", data |-> data] : data \in SnapshotForms }

\* server.js: const loaded = state.loadState()
LoadState(file) ==
  /\ reply.seq = 0
  /\ LET r == loadState(state, file)
     IN /\ state' = r.state
        /\ reply' = Reply("loadState", file.kind, IF r.loaded THEN "success" ELSE "error",
                          "none")
  /\ UNCHANGED <<monitorIntervals, liveTimers, runChecks, restChecks, pendingChecks,
                 pendingStartAll, OtherExt>>

LoadNext == \E file \in StateFiles : LoadState(file)

LoadSpec == Init /\ [][LoadNext]_vars

(***************************************************************************)
(* C25. After a loadState that failed, at whatever point, the state is the *)
(* default state: no collection holds a part of the snapshot.  Violated:   *)
(* loadState assigns the collections one by one inside its try block, so a *)
(* collection that throws leaves the ones assigned before it in place.     *)
(***************************************************************************)
C25_FailedLoadLeavesDefault ==
  (reply.op = "loadState" /\ reply.result = "error") => state = createInitialState

(***************************************************************************)
(* C26. The ids that have a Status are the ids that have a monitor, in     *)
(* every reachable state.  Violated, by the defect of C7: a check in       *)
(* flight when its monitor is deleted ends in updateStatus, which creates  *)
(* the Status it does not find.                                            *)
(***************************************************************************)
C26_StatusIffMonitor == DOMAIN state.statuses = DOMAIN state.monitors

(***************************************************************************)
(* C27. A step that applies DOWN to a monitor whose status is DOWN opens   *)
(* one Incident and one Alert for it if the new consecutive-failure count  *)
(* has reached the threshold and the monitor has no ongoing Incident, and  *)
(* otherwise creates no Incident and no Alert.                             *)
(***************************************************************************)
C27_Step ==
  \A m \in MonitorIds :
    (Applied(m) /\ PreviousStatus(m) = "DOWN" /\ AppliedResult(m) = "DOWN") =>
      IF /\ state'.statuses[m].consecutiveFailures >= state.settings.consecutiveFailuresThreshold
         /\ OngoingOf(state, m) = {}
      THEN /\ Len(state'.incidents) = Len(state.incidents) + 1
           /\ Tail1(state'.incidents) = state.incidents
           /\ state'.incidents[1].monitorId = m
           /\ state'.incidents[1].status = "ongoing"
           /\ Len(state'.alerts) = Len(state.alerts) + 1
           /\ Tail1(state'.alerts) = state.alerts
           /\ state'.alerts[1].monitorId = m
           /\ state'.alerts[1].status = "active"
      ELSE /\ state'.incidents = state.incidents
           /\ state'.alerts = state.alerts

C27_ThresholdOpensWhenNoneOngoing == [][C27_Step]_vars

\* DOWN three times from PENDING under threshold 3: the third DOWN opened the one incident
C27_Witness ==
  \E m \in DOMAIN state.statuses :
    /\ state.statuses[m].history = <<"DOWN", "DOWN", "DOWN">>
    /\ state.statuses[m].consecutiveFailures = 3
    /\ state.settings.consecutiveFailuresThreshold = 3
    /\ Len(state.incidents) = 1 /\ state.incidents[1].status = "ongoing"
    /\ Len(state.alerts) = 1 /\ state.alerts[1].status = "active"

(***************************************************************************)
(* HistSpec: one monitor, created over REST, is checked again and again,   *)
(* one check at a time, until its Status has taken more results than the   *)
(* history holds.  Up to two entries short of the limit the peer repeats   *)
(* with period two (steadily up, steadily down, or flapping); from there   *)
(* on every result is possible.                                            *)
(***************************************************************************)
MaxOverflow == 2

HistInit ==
  /\ ExtInit
  /\ state = createMonitor(createInitialState, "m1", DefaultData)
  /\ monitorIntervals = EmptyMap
  /\ liveTimers = {}
  /\ runChecks = [id \in MonitorIds |-> 0]
  /\ restChecks = [id \in MonitorIds |-> 0]
  /\ pendingChecks = [id \in MonitorIds |-> 0]
  /\ pendingStartAll = 0

\* the results the peer can give next, given the history so far
NextResults(history) ==
  IF Len(history) < 2 \/ Len(history) >= HistoryLimit - 2
  THEN Results
  ELSE {history[2]}

\* 'monitor:check-now': runCheck(io, id), up to the await of the probe
CheckNowStart(id) ==
  /\ id \in DOMAIN state.monitors
  /\ runChecks[id] = 0
  /\ getStatusOrDefault(state, id).totalChecks < HistoryLimit + MaxOverflow
  /\ runChecks' = beginRunCheck(runChecks, state, id)
  /\ UNCHANGED <<state, monitorIntervals, liveTimers, restChecks, pendingChecks, pendingStartAll>>
  /\ UNCHANGED extVars

\* the probe of that runCheck resolves with result
CheckNowComplete(id, result) ==
  /\ runChecks[id] > 0
  /\ result \in NextResults(getStatusOrDefault(state, id).history)
  /\ state' = finishRunCheck(state, id, result)
  /\ runChecks' = [runChecks EXCEPT ![id] = @ - 1]
  /\ UNCHANGED <<monitorIntervals, liveTimers, restChecks, pendingChecks, pendingStartAll>>
  /\ UNCHANGED extVars

HistNext ==
  \/ \E id \in MonitorIds : CheckNowStart(id)
  \/ \E id \in MonitorIds, result \in Results : CheckNowComplete(id, result)

HistSpec == HistInit /\ [][HistNext]_vars

(***************************************************************************)
(* C28. The history of a Status is a bounded most-recent-first list: after *)
(* a step that applies a result its first entry is that result, the        *)
(* entries after it are the previous history in its order, it is one       *)
(* longer than before unless the previous one was full, in which case the  *)
(* oldest entry is the one that is gone, and it never has more than 100    *)
(* entries.                                                                *)
(***************************************************************************)
C28_Step ==
  \A m \in MonitorIds :
    Applied(m) =>
      LET old == getStatusOrDefault(state, m).history
          new == state'.statuses[m].history
      IN /\ Len(new) >= 1 /\ new[1] = AppliedResult(m)
         /\ Len(new) = IF Len(old) < 100 THEN Len(old) + 1 ELSE 100
         /\ \A i \in 2..Len(new) : new[i] = old[i - 1]

C28_Bounded == \A m \in DOMAIN state.statuses : Len(state.statuses[m].history) <= 100

C28_BoundedHistory == [][C28_Step /\ C28_Bounded']_vars

\* a full history took two more results: the two oldest entries are gone
C28_Witness ==
  /\ "m1" \in DOMAIN state.statuses
  /\ runChecks["m1"] = 0
  /\ state.statuses["m1"].totalChecks = 102
  /\ Len(state.statuses["m1"].history) = 100
  /\ state.statuses["m1"].history[1] = "DOWN"
  /\ state.statuses["m1"].history[2] = "UP"
  /\ state.statuses["m1"].history[100] = "DOWN"

(***************************************************************************)
(* state/monitorState.js: the activity log.  An entry is the action, the   *)
(* entity type and the entity id of addActivity; each operator below gives *)
(* the log after the function of the same name has run on state st.        *)
(***************************************************************************)
ActivityLimit == 5000

addActivity(log, action, entityType, entityId) ==
  Slice(Unshift(log, [action |-> action, entityType |-> entityType, entityId |-> entityId]),
        ActivityLimit)

createMonitorActivity(log, id) == addActivity(log, "create", "monitor", id)

deleteMonitorActivity(log, st, id) ==
  IF id \notin DOMAIN st.monitors THEN log ELSE addActivity(log, "delete", "monitor", id)

updateSettingsActivity(log) == addActivity(log, "update", "settings", "system")

createAlertActivity(log, monitorId) == addActivity(log, "alert_created", "monitor", monitorId)

\* createIncident: createAlert logs first, then the incident is logged
createIncidentActivity(log, monitorId) ==
  addActivity(createAlertActivity(log, monitorId), "incident_created", "monitor", monitorId)

resolveIncidentForMonitorActivity(log, st, monitorId) ==
  IF \E k \in 1..Len(st.incidents) : IsOngoingFor(monitorId, st.incidents[k])
  THEN addActivity(log, "incident_resolved", "monitor", monitorId)
  ELSE log

\* faulty variant: the first result of a monitor is not taken as a change
LogsStatusChange_Known(previousStatus, result) ==
  previousStatus # "PENDING" /\ previousStatus # result

\* if (previousStatus !== statusData.status)
LogsStatusChange(previousStatus, result) == previousStatus # result

updateStatusActivity(log, st, monitorId, result) ==
  LET currentStatus == getStatusOrDefault(st, monitorId)
      previousStatus == currentStatus.status
      consecutiveFailures == NewConsecutiveFailures(currentStatus, result = "UP")
      log1 == IF LogsStatusChange(previousStatus, result)
              THEN addActivity(log, "status_change", "monitor", monitorId)
              ELSE log
  IN IF OpensOnFirstFailure(st, previousStatus, result, consecutiveFailures)
       THEN createIncidentActivity(log1, monitorId)
     ELSE IF OpensOnThreshold(st, monitorId, previousStatus, result, consecutiveFailures)
       THEN createIncidentActivity(log1, monitorId)
     ELSE IF previousStatus = "DOWN" /\ result = "UP" /\ st.settings.autoResolve
       THEN resolveIncidentForMonitorActivity(log1, st, monitorId)
     ELSE log1

(***************************************************************************)
(* ActivitySpec: monitors are created, checked and deleted over REST and   *)
(* the settings are changed, with the activity log kept.                   *)
(***************************************************************************)
MaxActivities == 6
MaxLoggedChecks == 3

\* POST /monitors
LoggedCreate(id, data) ==
  /\ Fresh(id)
  /\ Len(activityLogs) < MaxActivities
  /\ state' = createMonitor(state, id, data)
  /\ activityLogs' = createMonitorActivity(activityLogs, id)
  /\ UNCHANGED <<monitorIntervals, liveTimers, runChecks, restChecks, pendingChecks,
                 pendingStartAll>>
  /\ UNCHANGED <<recipVars, notifyVars, netVars, probeVars, apiVars, bootVars, runVars,
                 diskVars>>

\* DELETE /monitors/:id
LoggedDelete(id) ==
  /\ id \in DOMAIN state.monitors
  /\ Len(activityLogs) < MaxActivities
  /\ state' = deleteMonitor(state, id)
  /\ activityLogs' = deleteMonitorActivity(activityLogs, state, id)
  /\ UNCHANGED <<monitorIntervals, liveTimers, runChecks, restChecks, pendingChecks,
                 pendingStartAll>>
  /\ UNCHANGED <<recipVars, notifyVars, netVars, probeVars, apiVars, bootVars, runVars,
                 diskVars>>

\* PUT /settings
LoggedSettings(newSettings) ==
  /\ Len(activityLogs) < MaxActivities
  /\ state' = updateSettings(state, newSettings)
  /\ activityLogs' = updateSettingsActivity(activityLogs)
  /\ UNCHANGED <<monitorIntervals, liveTimers, runChecks, restChecks, pendingChecks,
                 pendingStartAll>>
  /\ UNCHANGED <<recipVars, notifyVars, netVars, probeVars, apiVars, bootVars, runVars,
                 diskVars>>

\* POST /monitors/:id/check, up to the await of the probe
LoggedCheckStart(id) ==
  /\ id \in DOMAIN state.monitors
  /\ restChecks[id] = 0
  /\ getStatusOrDefault(state, id).totalChecks < MaxLoggedChecks
  /\ Len(activityLogs) < MaxActivities
  /\ restChecks' = [restChecks EXCEPT ![id] = @ + 1]
  /\ UNCHANGED <<state, monitorIntervals, liveTimers, runChecks, pendingChecks, pendingStartAll>>
  /\ UNCHANGED extVars

\* POST /monitors/:id/check, after the await: updateStatus
LoggedCheckComplete(id, result) ==
  /\ restChecks[id] > 0
  /\ state' = updateStatus(state, id, result)
  /\ activityLogs' = updateStatusActivity(activityLogs, state, id, result)
  /\ restChecks' = [restChecks EXCEPT ![id] = @ - 1]
  /\ UNCHANGED <<monitorIntervals, liveTimers, runChecks, pendingChecks, pendingStartAll>>
  /\ UNCHANGED <<recipVars, notifyVars, netVars, probeVars, apiVars, bootVars, runVars,
                 diskVars>>

ActivityNext ==
  \/ \E id \in MonitorIds : LoggedCreate(id, DefaultData)
  \/ \E id \in MonitorIds : LoggedDelete(id)
  \/ \E newSettings \in SettingsData : LoggedSettings(newSettings)
  \/ \E id \in MonitorIds : LoggedCheckStart(id)
  \/ \E id \in MonitorIds, result \in Results : LoggedCheckComplete(id, result)

ActivitySpec == Init /\ [][ActivityNext]_vars

(***************************************************************************)
(* C29. A step that applies a result to the Status of a monitor puts       *)
(* exactly one 'status_change' entry for that monitor into the activity    *)
(* log when the result differs from the previous status (PENDING           *)
(* included) and none when it is the same; the entries already logged stay *)
(* behind the new ones.                                                    *)
(***************************************************************************)
IsStatusChangeOf(m, entry) ==
  entry.action = "status_change" /\ entry.entityType = "monitor" /\ entry.entityId = m

C29_Step ==
  \A m \in MonitorIds :
    Applied(m) =>
      LET added == Len(activityLogs') - Len(activityLogs)
      IN /\ added >= 0
         /\ \A i \in 1..Len(activityLogs) : activityLogs'[i + added] = activityLogs[i]
         /\ Cardinality({i \in 1..added : IsStatusChangeOf(m, activityLogs'[i])}) =
              IF PreviousStatus(m) # AppliedResult(m) THEN 1 ELSE 0
         /\ \A i \in 1..added :
              activityLogs'[i].action = "status_change" => activityLogs'[i].entityId = m

C29_OneStatusChangeEntry == [][C29_Step]_vars

\* the log of a monitor created, found UP, then DOWN, then UP again
C29_Witness ==
  /\ Len(activityLogs) = 7
  /\ activityLogs[1].action = "incident_resolved"
  /\ IsStatusChangeOf("m1", activityLogs[2])
  /\ activityLogs[3].action = "incident_created"
  /\ activityLogs[4].action = "alert_created"
  /\ IsStatusChangeOf("m1", activityLogs[5])
  /\ IsStatusChangeOf("m1", activityLogs[6])
  /\ activityLogs[7].action = "create"
  /\ "m1" \in DOMAIN state.statuses
  /\ state.statuses["m1"].history = <<"UP", "DOWN", "UP">>

(***************************************************************************)
(* BootSpec: the server starts with four stored monitors, each enabled or  *)
(* not and checked every second or every minute; server.listen calls back, *)
(* startAllMonitors sets an interval and a staggered first check per       *)
(* enabled monitor, and the timers fire in the order of their expiry.      *)
(* The clock counts milliseconds from the call of startAllMonitors; the    *)
(* probes started stay in flight.                                          *)
(***************************************************************************)
StaggerStep == 500
MaxBootTime == 2000
NotStarted == 0 - 1

BootIds == {"m1", "m2", "m3", "m4"}
\* the order of the entries of state.monitors, the order forEach visits them in
StoredOrder == <<"m1", "m2", "m3", "m4">>
BootSchedules == {1, 60}
BootData ==
  [BootIds -> [enabled : BOOLEAN, schedule : BootSchedules, name : {"web"}, type : {"http"},
               url : {"http://a"}]]

\* state.getEnabledMonitors() as the array it is
EnabledInOrder(st) == SelectSeq(StoredOrder, LAMBDA id : id \in getEnabledMonitors(st))

\* the index forEach passes for the monitor
OrdinalIndex(st, id) ==
  (CHOOSE i \in 1..Len(EnabledInOrder(st)) : EnabledInOrder(st)[i] = id) - 1

\* the timers one call of startAllMonitors sets at time t
StartupTimers(st, t) ==
  UNION { { [ kind |-> "interval", mon |-> id, period |-> st.monitors[id].schedule * 1000,
              due |-> t + st.monitors[id].schedule * 1000 ],
            [ kind |-> "first", mon |-> id, period |-> 0,
              due |-> t + OrdinalIndex(st, id) * StaggerStep ] } :
          id \in getEnabledMonitors(st) }

BootInit ==
  /\ ExtInit
  /\ \E data \in BootData : state = importData(createInitialState, data)
  /\ monitorIntervals = EmptyMap
  /\ liveTimers = {}
  /\ runChecks = [id \in BootIds |-> 0]
  /\ restChecks = [id \in BootIds |-> 0]
  /\ pendingChecks = [id \in BootIds |-> 0]
  /\ pendingStartAll = 0

\* server.listen calls back: startAllMonitors(io)
BootStartAll ==
  /\ boot.pc = "idle"
  /\ SetSch(startAllMonitors(Sch, state))
  /\ pendingChecks' = [id \in BootIds |->
                         IF id \in getEnabledMonitors(state) THEN pendingChecks[id] + 1
                                                              ELSE pendingChecks[id]]
  /\ boot' = [ pc |-> "started", now |-> 0, timers |-> StartupTimers(state, 0),
               firstCheckAt |-> [id \in BootIds |-> NotStarted] ]
  /\ UNCHANGED <<state, runChecks, restChecks, pendingStartAll>>
  /\ UNCHANGED <<recipVars, notifyVars, netVars, probeVars, apiVars, logVars, runVars,
                 diskVars>>

\* the timer is the next to expire
Expires(t) ==
  /\ t.due <= MaxBootTime
  /\ \A u \in boot.timers : t.due <= u.due

\* runCheck is entered for the monitor at the time the timer expired
CheckStartedAt(b, id, time) ==
  [b EXCEPT !.now = time,
            !.firstCheckAt[id] = IF @ = NotStarted THEN time ELSE @]

\* the setTimeout of startAllMonitors fires: runCheck(io, monitor.id)
BootFirstCheck(id) ==
  /\ boot.pc = "started"
  /\ \E t \in boot.timers :
       /\ t.kind = "first" /\ t.mon = id
       /\ Expires(t)
       /\ boot' = [CheckStartedAt(boot, id, t.due) EXCEPT !.timers = @ \ {t}]
  /\ pendingChecks' = [pendingChecks EXCEPT ![id] = @ - 1]
  /\ runChecks' = beginRunCheck(runChecks, state, id)
  /\ UNCHANGED <<state, monitorIntervals, liveTimers, restChecks, pendingStartAll>>
  /\ UNCHANGED <<recipVars, notifyVars, netVars, probeVars, apiVars, logVars, runVars,
                 diskVars>>

\* the setInterval of startMonitorInterval fires: runCheck(io, monitorId)
BootIntervalTick(id) ==
  /\ boot.pc = "started"
  /\ \E t \in boot.timers :
       /\ t.kind = "interval" /\ t.mon = id
       /\ Expires(t)
       /\ boot' = [CheckStartedAt(boot, id, t.due) EXCEPT
                     !.timers = (@ \ {t}) \cup {[t EXCEPT !.due = @ + t.period]}]
  /\ runChecks' = beginRunCheck(runChecks, state, id)
  /\ UNCHANGED <<state, monitorIntervals, liveTimers, restChecks, pendingChecks,
                 pendingStartAll>>
  /\ UNCHANGED <<recipVars, notifyVars, netVars, probeVars, apiVars, logVars, runVars,
                 diskVars>>

BootNext ==
  \/ BootStartAll
  \/ \E id \in BootIds : BootFirstCheck(id)
  \/ \E id \in BootIds : BootIntervalTick(id)

BootSpec == BootInit /\ [][BootNext]_vars

(***************************************************************************)
(* C30. After startAllMonitors the first check of the enabled monitor with *)
(* ordinal index i is started i times 500 ms after the call, so the first  *)
(* checks are started in ordinal order and no two monitors have their      *)
(* first check started at the same instant.                                *)
(***************************************************************************)
FirstCheckStarted(id) == boot.pc = "started" /\ boot.firstCheckAt[id] # NotStarted

C30_StaggeredFirstChecks ==
  /\ \A id \in BootIds :
       FirstCheckStarted(id) => boot.firstCheckAt[id] = OrdinalIndex(state, id) * 500
  /\ \A a, b \in BootIds :
       (a # b /\ FirstCheckStarted(a) /\ FirstCheckStarted(b)) =>
         boot.firstCheckAt[a] # boot.firstCheckAt[b]

(***************************************************************************)
(* handlers/socketHandlers.js: runCheck after updateStatus, the broadcasts *)
(* it makes and the alert it hands to sendAlertNotification.  An alert     *)
(* counts as created in the last five seconds when this call created it.   *)
(***************************************************************************)
\* the alerts updateStatus has just added to st, whose ids are the highest
CreatedSince(st, a) == a.id > Len(st.alerts)

runCheckOutcome(st, monitorId, result) ==
  LET previousStatus == IF monitorId \in DOMAIN st.statuses
                        THEN st.statuses[monitorId].status ELSE "undefined"
      st1 == updateStatus(st, monitorId, result)
      changed == previousStatus # result
      downAlert == FindIndex({i \in 1..Len(st1.alerts) :
                                IsActiveFor(monitorId, st1.alerts[i])
                                /\ CreatedSince(st, st1.alerts[i])})
      upAlert == FindIndex({i \in 1..Len(st1.alerts) : IsActiveFor(monitorId, st1.alerts[i])})
      recovered == changed /\ result = "UP" /\ previousStatus = "DOWN" /\ upAlert # 0
  IN [ monitor |-> monitorId,
       broadcasts |->
         <<"statuses-update", "stats-update">>
         \o (IF changed
             THEN <<"alerts-update", "incidents-update", "logs-update", "activity-update">>
             ELSE <<>>)
         \o (IF recovered THEN <<"alerts-update">> ELSE <<>>),
       notified |->
         IF changed /\ result = "DOWN" /\ downAlert # 0 THEN st1.alerts[downAlert].id
         ELSE IF recovered THEN st1.alerts[upAlert].id
         ELSE 0 ]

(***************************************************************************)
(* RunSpec: one monitor is created and checked, the settings change        *)
(* between the checks, and what each completed runCheck broadcast and      *)
(* notified is kept.                                                       *)
(***************************************************************************)
\* the probe of a runCheck resolves with result: updateStatus, broadcasts, notification
RunCheckObserved(id, result) ==
  /\ runChecks[id] > 0
  /\ getStatusOrDefault(state, id).totalChecks < MaxChecks
  /\ LET st1 == finishRunCheck(state, id, result)
     IN /\ Len(st1.incidents) <= MaxIncidents
        /\ state' = st1
  /\ lastRun' = runCheckOutcome(state, id, result)
  /\ runChecks' = [runChecks EXCEPT ![id] = @ - 1]
  /\ UNCHANGED <<monitorIntervals, liveTimers, restChecks, pendingChecks, pendingStartAll>>
  /\ UNCHANGED <<recipVars, notifyVars, netVars, probeVars, apiVars, logVars, bootVars, diskVars>>

RunNext ==
  \/ \E id \in CheckedIds : RestCreate(id, DefaultData)
  \/ \E id \in CheckedIds : SocketCheckNow(id)
  \/ \E id \in CheckedIds, result \in Results : RunCheckObserved(id, result)
  \/ \E newSettings \in SettingsData : UpdateSettings(newSettings)

RunSpec == Init /\ [][RunNext]_vars

Broadcast(event) == \E i \in 1..Len(lastRun'.broadcasts) : lastRun'.broadcasts[i] = event

(***************************************************************************)
(* C31. A check that opens or resolves an incident, or creates or resolves *)
(* an alert, broadcasts 'incidents-update' and 'alerts-update' in the same *)
(* check, whether or not the status value changed.                         *)
(***************************************************************************)
C31_Step ==
  \A m \in MonitorIds :
    (Applied(m) /\ (state'.incidents # state.incidents \/ state'.alerts # state.alerts)) =>
      (Broadcast("incidents-update") /\ Broadcast("alerts-update"))

C31_ChangesAreBroadcast == [][C31_Step]_vars

(***************************************************************************)
(* C32. A check whose result opens an incident hands the alert created     *)
(* with that incident to sendAlertNotification in the same check.          *)
(***************************************************************************)
C32_Step ==
  \A m \in MonitorIds :
    (Applied(m) /\ Len(state'.incidents) = Len(state.incidents) + 1) =>
      /\ state'.alerts[1].monitorId = m
      /\ lastRun'.notified = state'.alerts[1].id

C32_OpenedIncidentNotifies == [][C32_Step]_vars

(***************************************************************************)
(* C33. A check that takes a monitor with an active alert from DOWN to UP  *)
(* hands one of those alerts, now resolved, to sendAlertNotification, with *)
(* auto-resolve enabled and with it disabled.                              *)
(***************************************************************************)
C33_Step ==
  \A m \in MonitorIds :
    (Applied(m) /\ PreviousStatus(m) = "DOWN" /\ AppliedResult(m) = "UP"
       /\ ActiveOf(state, m) # {}) =>
      \E k \in ActiveOf(state, m) : lastRun'.notified = state.alerts[k].id

C33_RecoveryNotifies == [][C33_Step]_vars

(***************************************************************************)
(* TriggerSpec: sendAlertNotification is called once, for a service-down   *)
(* alert or for the alert a recovery has resolved, on two contacts that    *)
(* have an address and a phone and every choice of notifyOnDown,           *)
(* notifyOnUp and notifyOnIncident; mail and SMS are enabled.              *)
(***************************************************************************)
\* the alert runCheck passes: the one just created, or the one it has just resolved
TriggerAlerts ==
  { [type |-> "incident", severity |-> "critical", status |-> "active"],
    [type |-> "incident", severity |-> "critical", status |-> "resolved"] }

TriggerContacts(id) ==
  { [ id |-> id, email |-> id, phone |-> PhoneOf[id], notifyEmail |-> TRUE, notifySms |-> TRUE,
      notifyOnDown |-> d, notifyOnUp |-> u, notifyOnIncident |-> i ] :
      d \in BOOLEAN, u \in BOOLEAN, i \in BOOLEAN }

TriggerInit ==
  /\ ExtInit
  /\ \E k1 \in TriggerContacts("c1"), k2 \in TriggerContacts("c2") :
       state = [createInitialState EXCEPT
                  !.contacts = [id \in {"c1", "c2"} |-> IF id = "c1" THEN k1 ELSE k2],
                  !.settings = [@ EXCEPT !.emailEnabled = TRUE, !.smsEnabled = TRUE,
                                         !.smtpHost = "pulse", !.smtpUser = "pulse"]]
  /\ monitorIntervals = EmptyMap
  /\ liveTimers = {}
  /\ runChecks = [id \in MonitorIds |-> 0]
  /\ restChecks = [id \in MonitorIds |-> 0]
  /\ pendingChecks = [id \in MonitorIds |-> 0]
  /\ pendingStartAll = 0

\* runCheck calls sendAlertNotification(alert, monitor): the alert is kept with the dispatch
SendAlertFor(alert) ==
  /\ dispatch.pc = "idle"
  /\ dispatch' = beginSendAlertNotification(state) @@ [alert |-> alert]
  /\ UNCHANGED <<coreVars, apiVars, logVars, bootVars, runVars, diskVars, outbox, recipVars,
                 netVars, probeVars>>

TriggerNext ==
  \/ \E alert \in TriggerAlerts : SendAlertFor(alert)
  \/ \E outcome \in Outcomes : SpeakStep(outcome)
  \/ \E outcome \in Outcomes : SendEmailStep(outcome)
  \/ \E outcome \in Outcomes : SendSmsStep(outcome)

TriggerSpec == TriggerInit /\ [][TriggerNext]_vars

(***************************************************************************)
(* C34. The recipients of a dispatch are filtered by its trigger: no       *)
(* contact with notifyOnDown false is an email or SMS recipient of a       *)
(* service-down alert, and none with notifyOnUp false is a recipient of a  *)
(* recovery notification.                                                  *)
(***************************************************************************)
WantsTrigger(alert, contact) ==
  IF alert.status = "resolved" THEN contact.notifyOnUp ELSE contact.notifyOnDown

C34_RecipientsMatchTrigger ==
  dispatch.pc # "idle" =>
    /\ \A i \in 1..Len(dispatch.emailRecipients) :
         WantsTrigger(dispatch.alert, dispatch.emailRecipients[i])
    /\ \A i \in 1..Len(dispatch.smsRecipients) :
         WantsTrigger(dispatch.alert, dispatch.smsRecipients[i])

(***************************************************************************)
(* The self-check of the network and its incidents, under NetSpec.         *)
(***************************************************************************)
\* this step is a self-check that settled and found the connectivity changed to isConnected
Observed(isConnected) ==
  /\ netCheck.pc = "probing" /\ netCheck'.pc = "idle"
  /\ netCheck.previousStatus = ~isConnected
  /\ state'.networkStatus.isConnected = isConnected

(***************************************************************************)
(* C35. Whatever the self-check finds, in whatever order, at most one      *)
(* incident of the id 'NETWORK' is ongoing.                                *)
(***************************************************************************)
C35_OneOngoingNetworkIncident == Cardinality(OngoingOf(state, "NETWORK")) <= 1

(***************************************************************************)
(* C36. A self-check that finds the connection lost creates exactly one    *)
(* incident and exactly one alert for 'NETWORK'; one that finds it         *)
(* restored creates none.                                                  *)
(***************************************************************************)
C36_Step ==
  /\ Observed(FALSE) =>
       /\ Cardinality(IncidentsOf(state', "NETWORK")) =
            Cardinality(IncidentsOf(state, "NETWORK")) + 1
       /\ Cardinality(AlertsOf(state', "NETWORK")) = Cardinality(AlertsOf(state, "NETWORK")) + 1
  /\ Observed(TRUE) =>
       /\ Len(state'.incidents) = Len(state.incidents)
       /\ Len(state'.alerts) = Len(state.alerts)

C36_OneIncidentOneAlertPerLoss == [][C36_Step]_vars

(***************************************************************************)
(* C37. A loss of the connection found more than the cooldown after the    *)
(* most recent self-check notification, of either kind, is notified,       *)
(* whatever changes and suppressed notifications came before.              *)
(***************************************************************************)
C37_LossAfterCooldownNotified ==
  \A j \in 1..Len(netEvents) :
    (/\ ~netEvents[j].isConnected
     /\ \A k \in 1..(j - 1) :
          netEvents[k].notified =>
            netEvents[j].time - netEvents[k].time > NETWORK_NOTIFICATION_COOLDOWN) =>
      netEvents[j].notified

(***************************************************************************)
(* C38. After every step that applies a result, a monitor that is DOWN     *)
(* with consecutiveFailures at or above the configured threshold has an    *)
(* ongoing incident, for every threshold and every starting status, the    *)
(* PENDING of a new monitor included.                                      *)
(***************************************************************************)
C38_Step ==
  \A m \in MonitorIds :
    (/\ Applied(m)
     /\ state'.statuses[m].status = "DOWN"
     /\ state'.statuses[m].consecutiveFailures >=
          state'.settings.consecutiveFailuresThreshold) =>
      OngoingOf(state', m) # {}

C38_DownAtThresholdHasIncident == [][C38_Step]_vars

(***************************************************************************)
(* AlertSpec: one monitor is created and checked, its alerts are           *)
(* acknowledged and resolved by the operator at any time, and auto-resolve *)
(* is switched on and off.                                                 *)
(***************************************************************************)
AlertNext ==
  \/ \E id \in CheckedIds : RestCreate(id, DefaultData)
  \/ \E id \in CheckedIds : SocketCheckNow(id)
  \/ \E id \in CheckedIds, result \in Results : RunCheckComplete(id, result)
  \/ \E k \in 1..MaxIncidents : AcknowledgeAlert(k)
  \/ \E k \in 1..MaxIncidents : ResolveAlert(k)
  \/ \E autoResolve \in BOOLEAN : UpdateSettings([autoResolve |-> autoResolve])

AlertSpec == Init /\ [][AlertNext]_vars

(***************************************************************************)
(* C39. A resolved alert stays resolved: no step takes an alert whose      *)
(* status is 'resolved' to another status.                                 *)
(***************************************************************************)
C39_Step ==
  \A i \in 1..Len(state.alerts) : \A j \in 1..Len(state'.alerts) :
    (state.alerts[i].status = "resolved" /\ state'.alerts[j].id = state.alerts[i].id) =>
      state'.alerts[j].status = "resolved"

C39_ResolvedIsTerminal == [][C39_Step]_vars

(***************************************************************************)
(* state/monitorState.js: saveState and the load of what it wrote.         *)
(***************************************************************************)
IncidentsKept == 1000
AlertsKept == 500

\* arr.slice(-n): the last n elements, all of them when there are no more than n
SliceFromEnd(arr, n) ==
  IF Len(arr) <= n THEN arr ELSE SubSeq(arr, Len(arr) - n + 1, Len(arr))

\* dataToSave as JSON.stringify writes it; the credentials of a monitor go to
\* monitorsSecure under the same id, so a monitor is written whole
saveState(st) ==
  [ written |-> TRUE,
    data |-> [ monitors      |-> st.monitors,
               statuses      |-> st.statuses,
               contacts      |-> st.contacts,
               contactGroups |-> st.contactGroups,
               incidents     |-> SliceFromEnd(st.incidents, IncidentsKept),
               alerts        |-> SliceFromEnd(st.alerts, AlertsKept),
               settings      |-> st.settings ] ]

\* loadState on a file saveState wrote: every collection is taken as it is,
\* the settings are merged over the current ones
loadSaved(st, data) ==
  [ updateSettings(st, data.settings) EXCEPT
      !.contacts = data.contacts,
      !.contactGroups = data.contactGroups,
      !.incidents = data.incidents,
      !.alerts = data.alerts,
      !.monitors = data.monitors,
      !.statuses = data.statuses ]

(***************************************************************************)
(* SaveSpec: a process that has watched one flapping monitor for a long    *)
(* time, every operation saving the state, is checked a few more times and *)
(* restarted at any moment.  It starts one outage short of a limit of      *)
(* saveState.                                                              *)
(***************************************************************************)
MaxSavedChecks == 4

\* the state after createMonitor("m1") and the results UP, (DOWN, UP) n times, under
\* the default settings: every DOWN opened an incident and its alert (unshift, newest
\* first), every UP resolved them
AfterOutages(n) ==
  [ createMonitor(createInitialState, "m1", DefaultData) EXCEPT
      !.statuses["m1"] =
         [ status |-> "UP", consecutiveFailures |-> 0, totalChecks |-> 2 * n + 1,
           successfulChecks |-> n + 1,
           history |-> [i \in 1..HistoryLimit |-> IF i % 2 = 1 THEN "UP" ELSE "DOWN"] ],
      !.incidents =
         [i \in 1..n |-> [ id |-> n - i + 1, monitorId |-> "m1", status |-> "resolved",
                           resolvedAt |-> "set", duration |-> "set" ]],
      !.alerts =
         [i \in 1..n |-> [ id |-> n - i + 1, monitorId |-> "m1", type |-> "incident",
                           severity |-> "critical", status |-> "resolved",
                           resolvedAt |-> "set" ]] ]

SaveInit ==
  /\ ProcessInit
  /\ \E n \in {AlertsKept - 1, IncidentsKept - 1} : state = AfterOutages(n)
  /\ disk = saveState(state)
  /\ monitorIntervals = EmptyMap
  /\ liveTimers = {}
  /\ runChecks = [id \in MonitorIds |-> 0]
  /\ restChecks = [id \in MonitorIds |-> 0]
  /\ pendingChecks = [id \in MonitorIds |-> 0]
  /\ pendingStartAll = 0

\* the checks taken since the start of SaveSpec
SavedChecks(st) ==
  LET total == st.statuses["m1"].totalChecks
  IN IF total > 2 * (IncidentsKept - 1) THEN total - (2 * (IncidentsKept - 1) + 1)
     ELSE total - (2 * (AlertsKept - 1) + 1)

\* state.updateStatus(id, result) of a check, with the saveState calls it makes
SavedUpdateStatus(id, result) ==
  /\ id \in DOMAIN state.monitors
  /\ SavedChecks(state) < MaxSavedChecks
  /\ state' = updateStatus(state, id, result)
  /\ disk' = saveState(state')
  /\ UNCHANGED <<monitorIntervals, liveTimers, runChecks, restChecks, pendingChecks,
                 pendingStartAll>>
  /\ UNCHANGED <<recipVars, notifyVars, netVars, probeVars, apiVars, logVars, bootVars, runVars>>

\* the process ends and a new one calls loadState
Restart ==
  /\ state' = IF disk.written THEN loadSaved(createInitialState, disk.data)
              ELSE createInitialState
  /\ UNCHANGED <<monitorIntervals, liveTimers, runChecks, restChecks, pendingChecks,
                 pendingStartAll>>
  /\ UNCHANGED extVars

SaveNext ==
  \/ \E id \in CheckedIds, result \in Results : SavedUpdateStatus(id, result)
  \/ Restart

SaveSpec == SaveInit /\ [][SaveNext]_vars

\* the ids of the entries of a collection
IdsOf(list) == {list[k].id : k \in 1..Len(list)}

\* no entry of before is in after while the entry created after it is not
\* (before holds the newest first)
KeepsNewest(before, after) ==
  \A i \in 1..(Len(before) - 1) :
    before[i + 1].id \in IdsOf(after) => before[i].id \in IdsOf(after)

\* the newest ongoing incident of before, if any, is in after
KeepsNewestOngoing(before, after) ==
  \A i \in 1..Len(before) :
    (before[i].status = "ongoing" /\ \A j \in 1..(i - 1) : before[j].status # "ongoing")
      => before[i].id \in IdsOf(after)

(***************************************************************************)
(* C40. Whenever saveState has written the file, loading it gives back the *)
(* newest incidents and alerts: no entry is kept while a newer one is      *)
(* dropped, and the newest ongoing incident is kept.                       *)
(***************************************************************************)
C40_Step ==
  disk' # disk =>
    LET after == loadSaved(createInitialState, disk'.data)
    IN /\ KeepsNewest(state'.incidents, after.incidents)
       /\ KeepsNewest(state'.alerts, after.alerts)
       /\ KeepsNewestOngoing(state'.incidents, after.incidents)

C40_SaveKeepsNewest == [][C40_Step]_vars

====
